---- MODULE Spec2Model ----
(***************************************************************************)
(* A model of the MzanziFx market-structure analysis and signal engine:    *)
(* the candle store (src/data.js), the SMCAnalyzer (src/analysis.js), the  *)
(* news sentiment aggregator (src/unnamed/part_002) and the application    *)
(* glue that drives them (src/app.js).                                     *)
(*                                                                         *)
(* Prices are integers counted in the instrument's smallest displayed unit *)
(* (10^-decimals).  Values the code derives with fractional factors        *)
(* (0.995, 1.5, 0.382 ...) are carried as exact rationals scaled by a      *)
(* common denominator.  Candle indexes are the code's 0-based indexes; the *)
(* candle at code index i is cs[i + 1].                                    *)
(***************************************************************************)
EXTENDS Integers, Sequences, FiniteSets, TLC

VARIABLES
    chartData,      \* dataManager.chartData
    subscribed,     \* dataManager.subscribers holds the app's callback
    candles,        \* smcAnalyzer.candles
    aliased,        \* smcAnalyzer.candles is the very array dataManager.chartData
    analysis,       \* smcAnalyzer.analysis
    drawings,       \* what chart.updateDrawings last received
    pc,             \* position of the analyze() call in flight
    pass,           \* arguments and locals of the analyze() call in flight
    net,            \* what the network does with this pass's news requests
    result,         \* what the last analyze() call returned
    sink,           \* signals handed to signalTracker.saveSignal, each with the
                    \* number of candles its pass was given
    live,           \* number of live OHLC messages handled so far
    loads,          \* number of historical batches handled so far
    calls,          \* number of analyze() calls made so far
    news,           \* newsAnalyzer: its cache, its requests in flight, the clock
    tracker,        \* signalTracker, the signal store it writes to, its check runs
    dm,             \* dataManager: socket, connected, reconnectAttempts, currentSymbol
    wire            \* the feed connection: requests and messages in flight, streams

vars == <<chartData, subscribed, candles, aliased, analysis, drawings,
          pc, pass, net, result, sink, live, loads, calls, news, tracker, dm, wire>>

----------------------------------------------------------------------------
(* Values *)

Null == <<>>
Some(x) == <<x>>
IsNull(o) == o = <<>>
Val(o) == o[1]

Abs(x) == IF x < 0 THEN -x ELSE x
Min2(a, b) == IF a <= b THEN a ELSE b
Max2(a, b) == IF a >= b THEN a ELSE b

\* Math.min(...s) and Math.max(...s) of a non-empty list
SeqMin(s) == CHOOSE x \in {s[k] : k \in 1..Len(s)} : \A k \in 1..Len(s) : x <= s[k]
SeqMax(s) == CHOOSE x \in {s[k] : k \in 1..Len(s)} : \A k \in 1..Len(s) : x >= s[k]

\* Array.prototype.slice(-k): the last k elements
SliceLast(s, k) == IF Len(s) <= k THEN s ELSE SubSeq(s, Len(s) - k + 1, Len(s))
\* Array.prototype.slice(0, k): the first k elements
SliceFirst(s, k) == IF Len(s) <= k THEN s ELSE SubSeq(s, 1, k)

\* reduce((a, b) => a + b, 0)
RECURSIVE sumTo(_, _)
sumTo(s, n) == IF n = 0 THEN 0 ELSE sumTo(s, n - 1) + s[n]
SeqSum(s) == sumTo(s, Len(s))

\* the element of a one-element set
The(S) == CHOOSE x \in S : TRUE

Candle(t, o, h, l, c) == [time |-> t, open |-> o, high |-> h, low |-> l, close |-> c]

----------------------------------------------------------------------------
(* SMCAnalyzer: swing points and market structure (src/analysis.js)        *)

period == 7

\* the comparison that disqualifies a swing-high candidate
highBlocks_strict(other, current) == other.high > current.high
highBlocks(other, current) == other.high >= current.high

\* the comparison that disqualifies a swing-low candidate
lowBlocks(other, current) == other.low <= current.low

\* the inner loop over j = 1..period; flags = <<isHigh, isLow>>
RECURSIVE swingFlags(_, _, _, _)
swingFlags(cs, i, j, flags) ==
    IF j > period THEN flags
    ELSE LET current == cs[i + 1]
             left == cs[i - j + 1]
             right == cs[i + j + 1]
             isHigh == IF highBlocks(left, current) \/ highBlocks(right, current)
                       THEN FALSE ELSE flags[1]
             isLow == IF lowBlocks(left, current) \/ lowBlocks(right, current)
                      THEN FALSE ELSE flags[2]
         IN swingFlags(cs, i, j + 1, <<isHigh, isLow>>)

\* what one iteration of the outer loop pushes for candle i
swingsAt(cs, i) ==
    LET current == cs[i + 1]
        flags == swingFlags(cs, i, 1, <<TRUE, TRUE>>)
    IN (IF flags[1] THEN <<[type |-> "high", price |-> current.high, index |-> i]>>
        ELSE <<>>)
       \o (IF flags[2] THEN <<[type |-> "low", price |-> current.low, index |-> i]>>
           ELSE <<>>)

\* the outer loop over i = lo .. hi - 1: its iterations do not read what
\* earlier ones pushed, so the pushes of the two halves are joined in order
RECURSIVE swingLoop(_, _, _)
swingLoop(cs, lo, hi) ==
    IF hi <= lo THEN <<>>
    ELSE IF hi - lo = 1 THEN swingsAt(cs, lo)
    ELSE LET m == (lo + hi) \div 2
         IN swingLoop(cs, lo, m) \o swingLoop(cs, m, hi)

findSwingPoints(cs) == swingLoop(cs, period, Len(cs) - period)

\* the loop over i = 2 .. swings.length - 1; counts = <<higherHighs, lowerLows>>
RECURSIVE structureCounts(_, _, _)
structureCounts(swings, i, counts) ==
    IF ~(i < Len(swings)) THEN counts
    ELSE LET prev == swings[i - 2 + 1]
             curr == swings[i + 1]
             hh == IF curr.type = "high" /\ curr.price > prev.price
                   THEN counts[1] + 1 ELSE counts[1]
             ll == IF curr.type = "low" /\ curr.price < prev.price
                   THEN counts[2] + 1 ELSE counts[2]
         IN structureCounts(swings, i + 1, <<hh, ll>>)

trendOf_geq(higherHighs, lowerLows) ==
    IF higherHighs >= lowerLows THEN "bullish"
    ELSE IF lowerLows > higherHighs THEN "bearish" ELSE "ranging"
trendOf(higherHighs, lowerLows) ==
    IF higherHighs > lowerLows THEN "bullish"
    ELSE IF lowerLows > higherHighs THEN "bearish" ELSE "ranging"

identifyMarketStructure(cs) ==
    LET swings == findSwingPoints(cs)
        counts == structureCounts(swings, 2, <<0, 0>>)
    IN [trend |-> trendOf(counts[1], counts[2]), swings |-> swings,
        higherHighs |-> counts[1], lowerLows |-> counts[2]]

----------------------------------------------------------------------------
(* SMCAnalyzer: fair value gaps (src/analysis.js)                          *)

FvgKeep == 15

\* candle.low <= bottom + (top - bottom) * 0.5, both sides doubled
bullishFilledBy(candle, bottom, top) == 2 * candle.low <= 2 * bottom + (top - bottom)
bearishFilledBy(candle, bottom, top) == 2 * candle.high >= 2 * bottom + (top - bottom)

\* the loop over i = from .. length - 1: true at the first candle that fills
fvgFilledLoop(cs, from, type, bottom, top) ==
    \E i \in from..(Len(cs) - 1) :
        \/ type = "bullish" /\ bullishFilledBy(cs[i + 1], bottom, top)
        \/ type = "bearish" /\ bearishFilledBy(cs[i + 1], bottom, top)

checkFVGFilled_latest(cs, fvgIndex, type, bottom, top) ==
    fvgFilledLoop(cs, Len(cs) - 1, type, bottom, top)
checkFVGFilled(cs, fvgIndex, type, bottom, top) ==
    fvgFilledLoop(cs, fvgIndex + 1, type, bottom, top)

\* what one iteration of the loop pushes for candle i
fvgsAt(cs, i) ==
    LET prev == cs[i - 1 + 1]
        next == cs[i + 1 + 1]
    IN (IF prev.high < next.low
        THEN <<[type |-> "bullish", top |-> next.low, bottom |-> prev.high, index |-> i,
                size |-> next.low - prev.high,
                filled |-> checkFVGFilled(cs, i, "bullish", prev.high, next.low)]>>
        ELSE <<>>)
       \o (IF prev.low > next.high
           THEN <<[type |-> "bearish", top |-> prev.low, bottom |-> next.high, index |-> i,
                   size |-> prev.low - next.high,
                   filled |-> checkFVGFilled(cs, i, "bearish", next.high, prev.low)]>>
           ELSE <<>>)

\* the loop over i = lo .. hi - 1, the pushes of its two halves joined in order
RECURSIVE fvgLoop(_, _, _)
fvgLoop(cs, lo, hi) ==
    IF hi <= lo THEN <<>>
    ELSE IF hi - lo = 1 THEN fvgsAt(cs, lo)
    ELSE LET m == (lo + hi) \div 2
         IN fvgLoop(cs, lo, m) \o fvgLoop(cs, m, hi)

detectFairValueGaps(cs) == SliceLast(fvgLoop(cs, 1, Len(cs) - 1), FvgKeep)

----------------------------------------------------------------------------
(* SMCAnalyzer: support/resistance, liquidity, CHoCH/BOS, premium/discount *)

SrMinTouches == 4
SrKeep == 8

\* Math.abs(l.price - price) / price < 0.002, both sides times 1000 * price
srNear(levelPrice, price) == 1000 * Abs(levelPrice - price) < 2 * price

\* levels.find(...): the position of the first level near price, 0 when none
RECURSIVE srFind(_, _, _)
srFind(levels, k, price) ==
    IF k > Len(levels) THEN 0
    ELSE IF srNear(levels[k].price, price) THEN k
    ELSE srFind(levels, k + 1, price)

\* the body of the inner forEach for one price of candle i
srTouch(levels, price, i) ==
    LET k == srFind(levels, 1, price)
    IN IF k > 0
       THEN [levels EXCEPT ![k] = [price |-> levels[k].price,
                                   touches |-> levels[k].touches + 1, lastTouch |-> i]]
       ELSE Append(levels, [price |-> price, touches |-> 1, lastTouch |-> i])

\* one iteration of the outer forEach: the high, the low and the close of candle i
srCandle(cs, i, levels) ==
    LET candle == cs[i + 1]
    IN srTouch(srTouch(srTouch(levels, candle.high, i), candle.low, i), candle.close, i)

\* the outer forEach over the candles lo .. hi - 1, first half then second half
RECURSIVE srLevels(_, _, _, _)
srLevels(cs, lo, hi, levels) ==
    IF hi <= lo THEN levels
    ELSE IF hi - lo = 1 THEN srCandle(cs, lo, levels)
    ELSE LET m == (lo + hi) \div 2
             firstHalf == srLevels(cs, lo, m, levels)
         IN IF Len(firstHalf) >= 0 THEN srLevels(cs, m, hi, firstHalf) ELSE levels

\* Array.prototype.sort((a, b) => b.touches - a.touches): stable, descending
RECURSIVE srInsert(_, _)
srInsert(sorted, l) ==
    IF sorted = <<>> THEN <<l>>
    ELSE IF l.touches > sorted[1].touches THEN <<l>> \o sorted
    ELSE <<sorted[1]>> \o srInsert(Tail(sorted), l)
RECURSIVE srSort(_, _)
srSort(levels, sorted) ==
    IF levels = <<>> THEN sorted
    ELSE srSort(Tail(levels), srInsert(sorted, levels[1]))

srEnough(l) == l.touches >= SrMinTouches

findSupportResistance(cs) ==
    LET levels == srLevels(cs, 0, Len(cs), <<>>)
        current == cs[Len(cs)].close
        kept == SliceFirst(srSort(SelectSeq(levels, srEnough), <<>>), SrKeep)
    IN [k \in 1..Len(kept) |->
          [price |-> kept[k].price, touches |-> kept[k].touches,
           lastTouch |-> kept[k].lastTouch,
           type |-> IF kept[k].price > current THEN "resistance" ELSE "support"]]

LzKeep == 10

\* the loop over i = from .. length - 1, tolerance 0.001: true at the first sweep
sweptLoop(cs, from, swing) ==
    \E i \in from..(Len(cs) - 1) :
        \/ swing.type = "high" /\ 1000 * cs[i + 1].high > swing.price * 1001
        \/ swing.type = "low" /\ 1000 * cs[i + 1].low < swing.price * 999

checkLiquiditySwept(cs, swing) == sweptLoop(cs, swing.index + 1, swing)

\* reads this.analysis.marketStructure?.swings || []
swingsOf(a) == IF IsNull(a.marketStructure) THEN <<>> ELSE Val(a.marketStructure).swings

findLiquidityZones(cs, a) ==
    LET swings == swingsOf(a)
        zones == [k \in 1..Len(swings) |->
                    [type |-> IF swings[k].type = "high" THEN "buy-side" ELSE "sell-side",
                     price |-> swings[k].price, index |-> swings[k].index,
                     swept |-> checkLiquiditySwept(cs, swings[k])]]
    IN SliceLast(zones, LzKeep)

ChochKeep == 3

\* the loop over i = 2 .. swings.length - 1; acc = <<chochs, bos>>
RECURSIVE chochLoop(_, _, _)
chochLoop(swings, i, acc) ==
    IF ~(i < Len(swings)) THEN acc
    ELSE LET prevPrev == swings[i - 2 + 1]
             curr == swings[i + 1]
             same == prevPrev.type = curr.type
             ev(t) == [type |-> t, price |-> curr.price, index |-> curr.index]
             c1 == IF same /\ curr.type = "high" /\ curr.price < prevPrev.price
                   THEN Append(acc[1], ev("bearish")) ELSE acc[1]
             c2 == IF same /\ curr.type = "low" /\ curr.price > prevPrev.price
                   THEN Append(c1, ev("bullish")) ELSE c1
             b1 == IF same /\ curr.type = "high" /\ curr.price > prevPrev.price
                   THEN Append(acc[2], ev("bullish")) ELSE acc[2]
             b2 == IF same /\ curr.type = "low" /\ curr.price < prevPrev.price
                   THEN Append(b1, ev("bearish")) ELSE b1
         IN chochLoop(swings, i + 1, <<c2, b2>>)

detectChoCHAndBOS(a) ==
    LET acc == chochLoop(swingsOf(a), 2, <<<<>>, <<>>>>)
    IN [chochs |-> SliceLast(acc[1], ChochKeep), bos |-> SliceLast(acc[2], ChochKeep)]

PdWindow == 100

highOf(c) == c.high
lowOf(c) == c.low
MapSeq(s, F(_)) == [k \in 1..Len(s) |-> F(s[k])]

\* levels are kept times 1000: high - range * 0.382 is 1000 * high - 382 * range
calculatePremiumDiscount(cs) ==
    LET recent == SliceLast(cs, PdWindow)
        high == SeqMax(MapSeq(recent, highOf))
        low == SeqMin(MapSeq(recent, lowOf))
        range == high - low
        levels == [high |-> 1000 * high,
                   fib786 |-> 1000 * high - 214 * range,
                   fib618 |-> 1000 * high - 382 * range,
                   equilibrium |-> 1000 * high - 500 * range,
                   fib382 |-> 1000 * high - 618 * range,
                   fib236 |-> 1000 * high - 764 * range,
                   low |-> 1000 * low,
                   ote_high |-> 1000 * high - 214 * range,
                   ote_low |-> 1000 * high - 382 * range]
        current == cs[Len(cs)].close
        zone == IF 1000 * current >= levels.fib618 THEN "premium"
                ELSE IF 1000 * current <= levels.fib382 THEN "discount"
                ELSE "equilibrium"
    IN [levels |-> levels, currentZone |-> zone]

----------------------------------------------------------------------------
(* SMCAnalyzer: order blocks and Wyckoff phase (src/analysis.js)           *)

ObFirst == 10
ObTail == 3
ObKeep == 8

\* move > 0.003 where move = body / next.open, both sides times 1000 * open
obStrong(body, open) == 1000 * body > 3 * open

\* what one iteration of the loop pushes for candle i; strength = move * 100
\* is kept as the fraction body / open
obsAt(cs, i) ==
    LET prev == cs[i + 1]
        next == cs[i + 1 + 1]
        ob(t, body) == [type |-> t, top |-> prev.high, bottom |-> prev.low, index |-> i,
                        body |-> body, open |-> next.open]
    IN (IF prev.close < prev.open /\ next.close > next.open
           /\ obStrong(next.close - next.open, next.open)
        THEN <<ob("bullish", next.close - next.open)>> ELSE <<>>)
       \o (IF prev.close > prev.open /\ next.close < next.open
              /\ obStrong(next.open - next.close, next.open)
           THEN <<ob("bearish", next.open - next.close)>> ELSE <<>>)

\* the loop over i = lo .. hi - 1, the pushes of its two halves joined in order
RECURSIVE obLoop(_, _, _)
obLoop(cs, lo, hi) ==
    IF hi <= lo THEN <<>>
    ELSE IF hi - lo = 1 THEN obsAt(cs, lo)
    ELSE LET m == (lo + hi) \div 2
         IN obLoop(cs, lo, m) \o obLoop(cs, m, hi)

\* a.strength > b.strength
obStronger(a, b) == a.body * b.open > b.body * a.open

\* Array.prototype.sort((a, b) => b.strength - a.strength): stable, descending
RECURSIVE obInsert(_, _)
obInsert(sorted, ob) ==
    IF sorted = <<>> THEN <<ob>>
    ELSE IF obStronger(ob, sorted[1]) THEN <<ob>> \o sorted
    ELSE <<sorted[1]>> \o obInsert(Tail(sorted), ob)
RECURSIVE obSort(_, _)
obSort(obs, sorted) ==
    IF obs = <<>> THEN sorted
    ELSE obSort(Tail(obs), obInsert(sorted, obs[1]))

findOrderBlocks(cs) ==
    SliceFirst(obSort(obLoop(cs, ObFirst, Len(cs) - ObTail), <<>>), ObKeep)

WyWindow == 30

\* a return (cur - prev) / prev in units of 10^-5, rounded to the nearest unit
returnOf(prev, cur) == (2 * 100000 * (cur - prev) + prev) \div (2 * prev)

\* calculateVolatility(recent) < 0.015: the variance sum(r^2)/n - (sum(r)/n)^2
\* of the n returns is below 0.015^2, both sides times n^2 and 10^10; with no
\* return the variance is NaN and the comparison is false
volatilityLow(recent) ==
    LET n == Len(recent) - 1
        returns == [k \in 1..n |-> returnOf(recent[k].close, recent[k + 1].close)]
        squares == [k \in 1..n |-> returns[k] * returns[k]]
    IN /\ n > 0
       /\ n * SeqSum(squares) - SeqSum(returns) * SeqSum(returns) < 2250000 * n * n

analyzeWyckoff(cs) ==
    LET recent == SliceLast(cs, WyWindow)
        first == recent[1].close
        change == recent[Len(recent)].close - first
    IN IF 100 * Abs(change) < 2 * first /\ volatilityLow(recent)
       THEN [phase |-> IF change < 0 THEN "accumulation" ELSE "distribution",
             confidence |-> 75]
       ELSE IF 100 * change > 5 * first THEN [phase |-> "markup", confidence |-> 80]
       ELSE IF 100 * change < -5 * first THEN [phase |-> "markdown", confidence |-> 80]
       ELSE [phase |-> "neutral", confidence |-> 50]

----------------------------------------------------------------------------
(* NewsAnalyzer (src/unnamed/part_002)                                     *)
(* An article is the keyword counts of its text.  All articles of one pass *)
(* carry the same datetime, so their recency weights are equal.            *)

\* Math.round(n / d) for d > 0: halves round towards +infinity
RoundDiv(n, d) == (2 * n + d) \div (2 * d)

\* asset weights in percent
assetWeights(symbol) ==
    IF symbol = "XAUUSD" THEN <<20, 15, 15, 15, 10, 10, 10, 5>>
    ELSE <<30, 15, 12, 10, 10, 8, 8, 7>>

CompaniesPerAsset == 3

\* what one fetch of this pass does: a response with these articles, a
\* non-OK response, or a network error
fetchOf(mode) ==
    CASE mode = "bullish" -> [kind |-> "ok", news |-> <<[bullish |-> 2, bearish |-> 0]>>]
      [] mode = "bearish" -> [kind |-> "ok", news |-> <<[bullish |-> 0, bearish |-> 1]>>]
      [] mode = "mixed" -> [kind |-> "ok", news |-> <<[bullish |-> 1, bearish |-> 1]>>]
      [] mode = "status" -> [kind |-> "status", news |-> <<>>]
      [] OTHER -> [kind |-> "throw", news |-> <<>>]

\* getNews past the cache: [] on a non-OK response and on a thrown error
getNews(fetch) == IF fetch.kind = "ok" THEN Some(fetch.news) ELSE Some(<<>>)

analyzeSentiment(article) ==
    LET total == article.bullish + article.bearish
    IN IF total = 0 THEN 0
       ELSE RoundDiv((article.bullish - article.bearish) * 100, total)

RECURSIVE Concat(_)
Concat(ss) == IF ss = <<>> THEN <<>> ELSE ss[1] \o Concat(Tail(ss))

\* the asset's own news and the news of its first three companies
analyzeAsset(mode) ==
    LET allNews == Concat([k \in 1..(1 + CompaniesPerAsset) |-> Val(getNews(fetchOf(mode)))])
    IN IF Len(allNews) = 0
       THEN [sentiment |-> 0, articles |-> 0]
       ELSE [sentiment |-> RoundDiv(SeqSum(MapSeq(allNews, analyzeSentiment)), Len(allNews)),
             articles |-> Len(allNews)]

\* totalSentiment is kept times 100 (the weights are percentages)
analyzeCurrency(symbol, mode) ==
    LET w == assetWeights(symbol)
        total == SeqSum([k \in 1..Len(w) |-> analyzeAsset(mode).sentiment * w[k]])
    IN [sentiment |-> RoundDiv(total, 100),
        direction |-> IF total > 2000 THEN "BULLISH"
                      ELSE IF total < -2000 THEN "BEARISH" ELSE "NEUTRAL",
        articles |-> Len(w) * analyzeAsset(mode).articles]

----------------------------------------------------------------------------
(* SMCAnalyzer: signal synthesis (src/analysis.js)                         *)

\* getPipValue(symbol) in units of 10^-getDecimals(symbol)
pipUnits(symbol) == IF symbol = "BTCUSD" THEN 100 ELSE 1

\* the news sub-score after a settled race
newsConfidenceOf(newsAnalysis) ==
    IF newsAnalysis.direction = "BULLISH" THEN Min2(100, Abs(newsAnalysis.sentiment))
    ELSE IF newsAnalysis.direction = "BEARISH" THEN Min2(100, Abs(newsAnalysis.sentiment))
    ELSE 50

\* the news sub-score the catch block sets for a rejected race
newsConfidenceCaught_neutral(message) == IF message = "News timeout" THEN 50 ELSE 0
newsConfidenceCaught(message) == 0

isHigh(s) == s.type = "high"
isLow(s) == s.type = "low"
priceOf(s) == s.price

\* reduce((prev, curr) => |curr.price - entry| < |prev.price - entry| ? curr : prev)
RECURSIVE nearestTo(_, _, _)
nearestTo(levels, entry, best) ==
    IF levels = <<>> THEN best
    ELSE nearestTo(Tail(levels), entry,
             IF Abs(levels[1].price - entry) < Abs(best.price - entry)
             THEN levels[1] ELSE best)

\* parseFloat(x.toFixed(decimals)) of a positive value kept times 400
toFixed400(x400) == RoundDiv(x400, 400)

\* the levels of a BUY signal, each times 400: <<sl, tp1, tp2, tp3>>
buyLevels(symbol, entry, a) ==
    LET pip == pipUnits(symbol)
        swings == Val(a.marketStructure).swings
        highs == SliceLast(SelectSeq(swings, isHigh), 5)
        lows == SliceLast(SelectSeq(swings, isLow), 5)
        isRes(sr) == sr.type = "resistance" /\ sr.price > entry
        isSup(sr) == sr.type = "support" /\ sr.price < entry
        resistance == SelectSeq(a.supportResistance, isRes)
        support == SelectSeq(a.supportResistance, isSup)
        sl == IF Len(lows) > 0 THEN 400 * (SeqMin(MapSeq(lows, priceOf)) - pip * 5)
              ELSE IF Len(support) > 0
              THEN 400 * (nearestTo(Tail(support), entry, support[1]).price - pip * 5)
              ELSE 398 * entry
        e == 400 * entry
        slDistance == Abs(e - sl)
        tp1 == IF Len(resistance) > 0 /\ 400 * resistance[1].price < e + slDistance * 3
               THEN 400 * resistance[1].price ELSE e + (slDistance * 3) \div 2
        tp2 == IF Len(resistance) > 1 /\ 400 * resistance[2].price < e + slDistance * 4
               THEN 400 * resistance[2].price ELSE e + (slDistance * 5) \div 2
        recentHigh == SeqMax(MapSeq(highs, priceOf))
        tp3 == IF Len(resistance) > 2 /\ 400 * resistance[3].price < e + slDistance * 6
               THEN 400 * resistance[3].price
               ELSE IF Len(highs) > 0 /\ recentHigh > entry THEN 400 * (recentHigh + pip * 5)
               ELSE e + slDistance * 4
    IN <<sl, tp1, tp2, tp3>>

\* the levels of a SELL signal, each times 400: <<sl, tp1, tp2, tp3>>
sellLevels(symbol, entry, a) ==
    LET pip == pipUnits(symbol)
        swings == Val(a.marketStructure).swings
        highs == SliceLast(SelectSeq(swings, isHigh), 5)
        lows == SliceLast(SelectSeq(swings, isLow), 5)
        isRes(sr) == sr.type = "resistance" /\ sr.price > entry
        isSup(sr) == sr.type = "support" /\ sr.price < entry
        resistance == SelectSeq(a.supportResistance, isRes)
        support == SelectSeq(a.supportResistance, isSup)
        n == Len(support)
        sl == IF Len(highs) > 0 THEN 400 * (SeqMax(MapSeq(highs, priceOf)) + pip * 5)
              ELSE IF Len(resistance) > 0
              THEN 400 * (nearestTo(Tail(resistance), entry, resistance[1]).price + pip * 5)
              ELSE 402 * entry
        e == 400 * entry
        slDistance == Abs(sl - e)
        tp1 == IF n > 0 /\ 400 * support[n].price > e - slDistance * 3
               THEN 400 * support[n].price ELSE e - (slDistance * 3) \div 2
        tp2 == IF n > 1 /\ 400 * support[n - 1].price > e - slDistance * 4
               THEN 400 * support[n - 1].price ELSE e - (slDistance * 5) \div 2
        recentLow == SeqMin(MapSeq(lows, priceOf))
        tp3 == IF n > 2 /\ 400 * support[n - 2].price > e - slDistance * 6
               THEN 400 * support[n - 2].price
               ELSE IF Len(lows) > 0 /\ recentLow < entry THEN 400 * (recentLow - pip * 5)
               ELSE e - slDistance * 4
    IN <<sl, tp1, tp2, tp3>>

\* the record both createBuySignal and createSellSignal return
signalRecord(action, symbol, timeframe, entry, lv, overallConfidence, technicalConfidence, smcConfidence, newsConfidence, reasons, newsAnalysis) ==
    LET pip400 == 400 * pipUnits(symbol)
        e == 400 * entry
    IN [symbol |-> symbol, timeframe |-> timeframe, action |-> action,
        entry |-> toFixed400(e), sl |-> toFixed400(lv[1]),
        tp1 |-> toFixed400(lv[2]), tp2 |-> toFixed400(lv[3]), tp3 |-> toFixed400(lv[4]),
        slPips |-> RoundDiv(Abs(e - lv[1]), pip400),
        tp1Pips |-> RoundDiv(Abs(lv[2] - e), pip400),
        tp2Pips |-> RoundDiv(Abs(lv[3] - e), pip400),
        tp3Pips |-> RoundDiv(Abs(lv[4] - e), pip400),
        confidence |-> overallConfidence,
        technicalConfidence |-> Min2(100, technicalConfidence),
        smcConfidence |-> Min2(100, smcConfidence),
        sentimentConfidence |-> Min2(100, newsConfidence),
        reasons |-> reasons,
        newsAnalysis |-> newsAnalysis, status |-> "active"]

createBuySignal(symbol, timeframe, current, overallConfidence, technicalConfidence, smcConfidence, newsConfidence, reasons, newsAnalysis, a) ==
    The({signalRecord("BUY", symbol, timeframe, current.close, lv, overallConfidence,
                      technicalConfidence, smcConfidence, newsConfidence, reasons,
                      newsAnalysis) : lv \in {buyLevels(symbol, current.close, a)}})

createSellSignal(symbol, timeframe, current, overallConfidence, technicalConfidence, smcConfidence, newsConfidence, reasons, newsAnalysis, a) ==
    The({signalRecord("SELL", symbol, timeframe, current.close, lv, overallConfidence,
                      technicalConfidence, smcConfidence, newsConfidence, reasons,
                      newsAnalysis) : lv \in {sellLevels(symbol, current.close, a)}})

\* one `if (...) { confidence += points; reasons.push(reason) }` of generateSignal
evidenceIf(holds, kind, reason, points) ==
    IF holds THEN <<[kind |-> kind, reason |-> reason, points |-> points]>> ELSE <<>>

\* the reason pushed for the news, when there is a news analysis
newsEvidence(newsAnalysis) ==
    IF IsNull(newsAnalysis) THEN <<>>
    ELSE evidenceIf(TRUE, "news", "news " \o Val(newsAnalysis).direction, 0)

\* the checks of the bullish branch, in the order the code makes them
bullishEvidence(p, newsAnalysis, a) ==
    LET close == p.current.close
    IN evidenceIf(p.pd.currentZone = "discount", "technical", "discount zone", 30)
       \o evidenceIf(\E k \in 1..Len(a.supportResistance) :
                        a.supportResistance[k].type = "support",
                     "technical", "support", 50)
       \o evidenceIf(\E k \in 1..Len(a.orderBlocks) :
                        /\ a.orderBlocks[k].type = "bullish"
                        /\ close >= a.orderBlocks[k].bottom
                        /\ 100 * close <= 102 * a.orderBlocks[k].top,
                     "smc", "bullish order block", 20)
       \o evidenceIf(\E k \in 1..Len(a.fvgs) :
                        a.fvgs[k].type = "bullish" /\ ~a.fvgs[k].filled,
                     "smc", "bullish FVG", 20)
       \o evidenceIf(\E k \in 1..Len(a.liquidityZones) :
                        a.liquidityZones[k].type = "sell-side" /\ a.liquidityZones[k].swept,
                     "smc", "liquidity swept", 20)
       \o evidenceIf(\E k \in 1..Len(a.chochs) : a.chochs[k].type = "bullish",
                     "smc", "bullish CHoCH", 15)
       \o evidenceIf(~IsNull(a.wyckoff) /\ Val(a.wyckoff).phase = "accumulation",
                     "smc", "Wyckoff accumulation", 25)
       \o newsEvidence(newsAnalysis)

\* the checks of the bearish branch, in the order the code makes them
bearishEvidence(p, newsAnalysis, a) ==
    LET close == p.current.close
    IN evidenceIf(p.pd.currentZone = "premium", "technical", "premium zone", 30)
       \o evidenceIf(\E k \in 1..Len(a.supportResistance) :
                        a.supportResistance[k].type = "resistance",
                     "technical", "resistance", 50)
       \o evidenceIf(\E k \in 1..Len(a.orderBlocks) :
                        /\ a.orderBlocks[k].type = "bearish"
                        /\ close <= a.orderBlocks[k].top
                        /\ 100 * close >= 98 * a.orderBlocks[k].bottom,
                     "smc", "bearish order block", 20)
       \o evidenceIf(\E k \in 1..Len(a.fvgs) :
                        a.fvgs[k].type = "bearish" /\ ~a.fvgs[k].filled,
                     "smc", "bearish FVG", 20)
       \o evidenceIf(\E k \in 1..Len(a.liquidityZones) :
                        a.liquidityZones[k].type = "buy-side" /\ a.liquidityZones[k].swept,
                     "smc", "liquidity swept", 20)
       \o evidenceIf(\E k \in 1..Len(a.chochs) : a.chochs[k].type = "bearish",
                     "smc", "bearish CHoCH", 15)
       \o evidenceIf(~IsNull(a.wyckoff) /\ Val(a.wyckoff).phase = "distribution",
                     "smc", "Wyckoff distribution", 25)
       \o newsEvidence(newsAnalysis)

\* technicalConfidence or smcConfidence: the points of the checks of one kind
confidenceOf(evidence, kind) ==
    SeqSum([k \in 1..Len(evidence) |->
               IF evidence[k].kind = kind THEN evidence[k].points ELSE 0])

reasonsOf(evidence) == [k \in 1..Len(evidence) |-> evidence[k].reason]

\* Math.round((technicalConfidence + smcConfidence + newsConfidence) / 3)
overallConfidence_floor(technicalConfidence, smcConfidence, newsConfidence) ==
    (technicalConfidence + smcConfidence + newsConfidence) \div 3
overallConfidence(technicalConfidence, smcConfidence, newsConfidence) ==
    RoundDiv(technicalConfidence + smcConfidence + newsConfidence, 3)

\* which branch of generateSignal the captured structure's trend selects
biasAction_flipped(trend) ==
    IF trend = "bullish" THEN "SELL" ELSE IF trend = "bearish" THEN "BUY" ELSE "none"
biasAction(trend) ==
    IF trend = "bullish" THEN "BUY" ELSE IF trend = "bearish" THEN "SELL" ELSE "none"

\* generateSignal after the race has settled: Null, or Some(signal)
scoredSignal(act, p, evidence, newsConfidence, newsAnalysis, a) ==
    LET technicalConfidence == confidenceOf(evidence, "technical")
        smcConfidence == confidenceOf(evidence, "smc")
        overall == overallConfidence(technicalConfidence, smcConfidence, newsConfidence)
    IN IF act = "BUY"
       THEN createBuySignal(p.symbol, p.timeframe, p.current, overall,
                            technicalConfidence, smcConfidence, newsConfidence,
                            reasonsOf(evidence), newsAnalysis, a)
       ELSE createSellSignal(p.symbol, p.timeframe, p.current, overall,
                             technicalConfidence, smcConfidence, newsConfidence,
                             reasonsOf(evidence), newsAnalysis, a)

finishSignal(p, newsConfidence, newsAnalysis, a) ==
    LET act == biasAction(p.structure.trend)
    IN IF act = "none" THEN Null
       ELSE The({Some(scoredSignal(act, p, evidence, newsConfidence, newsAnalysis, a)) :
                    evidence \in {IF act = "BUY" THEN bullishEvidence(p, newsAnalysis, a)
                                  ELSE bearishEvidence(p, newsAnalysis, a)}})

----------------------------------------------------------------------------
(* Inputs: candle histories and live candles the feed can deliver          *)

Base == 10000           \* price of the first candle, in units
Tf == 300               \* seconds per candle
HalfWave == 8           \* candles per leg of the zigzag

\* a zigzag with legs of HalfWave candles, amplitude slope a and drift d per
\* candle; a = 0 gives a strictly monotone series
wave(i) == LET m == i % (2 * HalfWave) IN IF m <= HalfWave THEN m ELSE 2 * HalfWave - m
mid(a, d, i) == Base + d * i + a * wave(i)
shapeCandle(a, d, i) ==
    LET c == mid(a, d, i)
        up == IF i = 0 THEN d >= 0 ELSE c >= mid(a, d, i - 1)
        o == IF up THEN c - 1 ELSE c + 1
    IN Candle((i + 1) * Tf * 1000, o, Max2(o, c) + 1, Min2(o, c) - 1, c)
Batch(a, d, n) == [k \in 1..n |-> shapeCandle(a, d, k - 1)]

Shapes == {<<3, 1>>, <<3, -1>>, <<3, 0>>}
BatchLens == {0, 60, 99, 100}
Batches == {Batch(sh[1], sh[2], n) : sh \in Shapes, n \in BatchLens}

\* live candles, relative to the last close: a quiet bar, a crash, a rally
LiveMoves == {0, -400, 400}
liveCandle(cd, move, fresh) ==
    LET last == IF cd = <<>> THEN Candle(0, Base, Base, Base, Base) ELSE cd[Len(cd)]
        c == last.close + move
        t == IF fresh THEN last.time + Tf * 1000 ELSE last.time
    IN Candle(t, last.close, Max2(last.close, c) + 1, Min2(last.close, c) - 1, c)

Symbols == {"XAUUSD", "BTCUSD"}
NetModes == {"hang", "status", "throw", "bullish", "bearish", "mixed"}

MaxLive == 1            \* live OHLC messages per run
MaxLoads == 1           \* historical batches per run

----------------------------------------------------------------------------
(* State after construction                                                *)

MinCandles == 100
MinDrawCandles == 50

emptyAnalysis ==
    [supportResistance |-> <<>>, premiumDiscount |-> Null, marketStructure |-> Null,
     orderBlocks |-> <<>>, fvgs |-> <<>>, liquidityZones |-> <<>>, chochs |-> <<>>,
     bos |-> <<>>, wyckoff |-> Null]

noPass ==
    [viaApp |-> FALSE, symbol |-> "", timeframe |-> 0, given |-> -1,
     current |-> Null, structure |-> Null, pd |-> Null, race |-> "none", ret |-> Null]

noResult == [kind |-> "none", given |-> -1, signal |-> Null]

\* the symbols getNews is asked for
NewsSymbols == {"GLD", "DXY"}

\* new NewsAnalyzer(): an empty cache; no request in flight; the clock, in ms
newNews ==
    [cache |-> [s \in NewsSymbols |-> Null], pending |-> {}, requests |-> 0,
     late |-> FALSE, now |-> 0, last |-> Null]

\* new SignalTracker(), an empty signal store, no check run in progress
newTracker ==
    [tracking |-> FALSE, loaded |-> FALSE, signals |-> <<>>, store |-> <<>>,
     runs |-> <<>>, now |-> 0]

\* new DataManager(): no socket yet
newDm ==
    [ws |-> 0, connected |-> FALSE, reconnectAttempts |-> 0, currentSymbol |-> "XAUUSD",
     sockets |-> <<>>, timers |-> 0]

\* nothing in flight and no stream at the server
idleWire == [requests |-> {}, sent |-> 0, messages |-> <<>>, streams |-> {}, ticks |-> 0]

Init ==
    /\ chartData = <<>>
    /\ subscribed = FALSE
    /\ candles = <<>>
    /\ aliased = FALSE
    /\ analysis = emptyAnalysis
    /\ drawings = Null
    /\ pc = "idle"
    /\ pass = noPass
    /\ net = "none"
    /\ result = noResult
    /\ sink = <<>>
    /\ live = 0
    /\ loads = 0
    /\ calls = 0
    /\ news = newNews
    /\ tracker = newTracker
    /\ dm = newDm
    /\ wire = idleWire

----------------------------------------------------------------------------
(* app.js: the subscriber callback and analyzeSMC                          *)

getDrawables(a) ==
    [supportResistance |-> a.supportResistance, premiumDiscount |-> a.premiumDiscount]

\* analyzeSMC past its guard, on the array cd = dataManager.getChartData()
drawPass(cd, a) ==
    LET a1 == [a EXCEPT !.marketStructure = Some(identifyMarketStructure(cd)),
                        !.orderBlocks = findOrderBlocks(cd)]
        a2 == [a1 EXCEPT !.fvgs = detectFairValueGaps(cd)]
        a3 == [a2 EXCEPT !.liquidityZones = findLiquidityZones(cd, a2)]
        a4 == [a3 EXCEPT !.supportResistance = findSupportResistance(cd)]
    IN [a4 EXCEPT !.premiumDiscount = Some(calculatePremiumDiscount(cd)),
                  !.wyckoff = Some(analyzeWyckoff(cd))]

drawGuard(cd) == Len(cd) < MinDrawCandles

\* the callback of loadChartData for new contents cd of chartData; sameArray
\* tells whether chartData is still the array it was before the message
analyzeSMC(cd, sameArray) ==
    IF drawGuard(cd)
    THEN /\ candles' = IF aliased /\ sameArray THEN cd ELSE candles
         /\ aliased' = (aliased /\ sameArray)
         /\ UNCHANGED <<analysis, drawings>>
    ELSE /\ candles' = cd
         /\ aliased' = TRUE
         /\ \E a \in {drawPass(cd, analysis)} :
               /\ analysis' = a
               /\ drawings' = Some(getDrawables(a))

loadChartData ==
    /\ ~subscribed
    /\ subscribed' = TRUE
    /\ UNCHANGED <<chartData, candles, aliased, analysis, drawings, pc, pass, net,
                   result, sink, live, loads, calls, news, tracker, dm, wire>>

----------------------------------------------------------------------------
(* data.js: the candle store                                               *)

\* a 'candles' message: the history replaces chartData, subscribers are told
handleCandles(batch) ==
    /\ subscribed
    /\ loads' = loads + 1
    /\ chartData' = batch
    /\ IF Len(batch) > 0
       THEN analyzeSMC(batch, FALSE)
       ELSE /\ aliased' = FALSE
            /\ UNCHANGED <<candles, analysis, drawings>>
    /\ UNCHANGED <<subscribed, pc, pass, net, result, sink, live, calls, news, tracker, dm, wire>>

\* chartData after an 'ohlc' message: the last candle replaced or a new one pushed
updateLast(cd, candle) ==
    IF Len(cd) > 0 /\ cd[Len(cd)].time = candle.time
    THEN [cd EXCEPT ![Len(cd)] = candle]
    ELSE Append(cd, candle)

\* an 'ohlc' message: the last candle is replaced or a new one is pushed
handleOHLC(candle) ==
    /\ subscribed
    /\ live' = live + 1
    /\ chartData' = updateLast(chartData, candle)
    /\ analyzeSMC(updateLast(chartData, candle), TRUE)
    /\ UNCHANGED <<subscribed, pc, pass, net, result, sink, loads, calls, news, tracker, dm, wire>>

----------------------------------------------------------------------------
(* analysis.js: analyze(), one action per stretch between two awaits       *)

MaxCalls == 1           \* calls of generateSignal() or analyze() per run

\* the guard of analyze(); arg is Null for a missing sequence
analyzeGuard_draw(arg) == IsNull(arg) \/ Len(Val(arg)) < MinDrawCandles
analyzeGuard(arg) == IsNull(arg) \/ Len(Val(arg)) < MinCandles

\* the guard of the app's generateSignal() on dataManager.getChartData()
appGuard(cd) == Len(cd) < MinCandles

given(arg) == IF IsNull(arg) THEN -1 ELSE Len(Val(arg))

\* analyze(arg, symbol, timeframe) up to its first await
analyzeEnter(arg, viaApp, symbol, timeframe) ==
    IF analyzeGuard(arg)
    THEN /\ result' = [kind |-> "returned", given |-> given(arg), signal |-> Null]
         /\ UNCHANGED <<candles, aliased, pc, pass>>
    ELSE /\ candles' = Val(arg)
         /\ aliased' = TRUE
         /\ pc' = "s5"
         /\ pass' = [noPass EXCEPT !.viaApp = viaApp, !.symbol = symbol,
                                   !.timeframe = timeframe, !.given = given(arg)]
         /\ result' = [kind |-> "pending", given |-> given(arg), signal |-> Null]

\* app.js generateSignal() up to its first await
appGenerateSignal(symbol) ==
    /\ pc = "idle"
    /\ calls < MaxCalls
    /\ calls' = calls + 1
    /\ IF appGuard(chartData)
       THEN /\ result' = [kind |-> "declined", given |-> Len(chartData), signal |-> Null]
            /\ UNCHANGED <<candles, aliased, pc, pass>>
       ELSE analyzeEnter(Some(chartData), TRUE, symbol, Tf)
    /\ UNCHANGED <<chartData, subscribed, analysis, drawings, net, sink, live, loads, news, tracker, dm, wire>>

\* smcAnalyzer.analyze() called on its own, with the chart data or with nothing
analyze(arg, symbol) ==
    /\ pc = "idle"
    /\ calls < MaxCalls
    /\ calls' = calls + 1
    /\ analyzeEnter(arg, FALSE, symbol, Tf)
    /\ UNCHANGED <<chartData, subscribed, analysis, drawings, net, sink, live, loads, news, tracker, dm, wire>>

phaseFrame == UNCHANGED <<chartData, subscribed, candles, aliased, drawings, pass,
                          net, result, sink, live, loads, calls, news, tracker, dm, wire>>

\* after sleep(100) at 5%: identifyMarketStructure()
phaseStructure ==
    /\ pc = "s5"
    /\ analysis' = [analysis EXCEPT !.marketStructure = Some(identifyMarketStructure(candles))]
    /\ pc' = "s10"
    /\ phaseFrame

\* after the sleeps at 10% and 15%: trendlines and channels are skipped
phaseSkip ==
    /\ pc \in {"s10", "s15"}
    /\ pc' = IF pc = "s10" THEN "s15" ELSE "s20"
    /\ UNCHANGED analysis
    /\ phaseFrame

\* after the sleep at 20%: findSupportResistance()
phaseSupportResistance ==
    /\ pc = "s20"
    /\ analysis' = [analysis EXCEPT !.supportResistance = findSupportResistance(candles)]
    /\ pc' = "s30"
    /\ phaseFrame

\* after the sleep at 30%: findOrderBlocks()
phaseOrderBlocks ==
    /\ pc = "s30"
    /\ analysis' = [analysis EXCEPT !.orderBlocks = findOrderBlocks(candles)]
    /\ pc' = "s40"
    /\ phaseFrame

\* after the sleeps at 40% and 80%: advanced order blocks and retest zones
\* write fields this model does not hold
phaseOther ==
    /\ pc \in {"s40", "s80"}
    /\ pc' = IF pc = "s40" THEN "s50" ELSE "s85"
    /\ UNCHANGED analysis
    /\ phaseFrame

\* after the sleep at 85%: analyzeWyckoff()
phaseWyckoff ==
    /\ pc = "s85"
    /\ analysis' = [analysis EXCEPT !.wyckoff = Some(analyzeWyckoff(candles))]
    /\ pc' = "s90"
    /\ phaseFrame

\* after the sleep at 50%: detectFairValueGaps()
phaseFairValueGaps ==
    /\ pc = "s50"
    /\ analysis' = [analysis EXCEPT !.fvgs = detectFairValueGaps(candles)]
    /\ pc' = "s60"
    /\ phaseFrame

\* after the sleep at 60%: findLiquidityZones()
phaseLiquidity ==
    /\ pc = "s60"
    /\ analysis' = [analysis EXCEPT !.liquidityZones = findLiquidityZones(candles, analysis)]
    /\ pc' = "s70"
    /\ phaseFrame

\* after the sleep at 70%: detectBreakouts(); detectChoCHAndBOS()
phaseChoch ==
    /\ pc = "s70"
    /\ \E found \in {detectChoCHAndBOS(analysis)} :
          analysis' = [analysis EXCEPT !.chochs = found.chochs, !.bos = found.bos]
    /\ pc' = "s80"
    /\ phaseFrame

\* after the sleep at 90%: calculatePremiumDiscount(), then generateSignal()
\* up to its await of the race between the news request and the 10 s timer
phasePremiumDiscount(mode) ==
    /\ pc = "s90"
    /\ analysis' = [analysis EXCEPT !.premiumDiscount = Some(calculatePremiumDiscount(candles))]
    /\ IF IsNull(analysis.marketStructure)
       THEN /\ pc' = "s100"
            /\ pass' = [pass EXCEPT !.ret = Null]
            /\ net' = net
       ELSE /\ pc' = "news"
            /\ pass' = [pass EXCEPT !.current = Some(candles[Len(candles)]),
                                    !.structure = analysis.marketStructure,
                                    !.pd = Some(calculatePremiumDiscount(candles))]
            /\ net' = mode
    /\ UNCHANGED <<chartData, subscribed, candles, aliased, drawings, result, sink,
                   live, loads, calls, news, tracker, dm, wire>>

\* the cache after the getNews calls of one analyzeCurrency: every OK response is stored
newsFetched(n, mode) ==
    IF fetchOf(mode).kind = "ok"
    THEN [n EXCEPT !.cache = [s \in NewsSymbols |-> Some([data |-> 1, time |-> n.now])]]
    ELSE n

\* newsAnalyzer.analyzeCurrency() settles first
newsResolve ==
    /\ pc = "news"
    /\ net # "hang"
    /\ LET newsAnalysis == analyzeCurrency(pass.symbol, net)
           p == [symbol |-> pass.symbol, timeframe |-> pass.timeframe,
                 current |-> Val(pass.current), structure |-> Val(pass.structure),
                 pd |-> Val(pass.pd)]
       IN \E signal \in {finishSignal(p, newsConfidenceOf(newsAnalysis),
                                      Some(newsAnalysis), analysis)} :
             pass' = [pass EXCEPT !.race = "news", !.ret = signal]
    /\ pc' = "s100"
    /\ news' = newsFetched(news, net)
    /\ UNCHANGED <<chartData, subscribed, candles, aliased, analysis, drawings, net,
                   result, sink, live, loads, calls, tracker, dm, wire>>

\* the 10 s timer fires first: the race rejects with 'News timeout'
newsTimeout ==
    /\ pc = "news"
    /\ LET p == [symbol |-> pass.symbol, timeframe |-> pass.timeframe,
                 current |-> Val(pass.current), structure |-> Val(pass.structure),
                 pd |-> Val(pass.pd)]
       IN \E signal \in {finishSignal(p, newsConfidenceCaught("News timeout"),
                                      Null, analysis)} :
             pass' = [pass EXCEPT !.race = "timeout", !.ret = signal]
    /\ pc' = "s100"
    /\ news' = [news EXCEPT !.late = TRUE]
    /\ UNCHANGED <<chartData, subscribed, candles, aliased, analysis, drawings, net,
                   result, sink, live, loads, calls, tracker, dm, wire>>

\* what the frame of generateSignal holds once newsPromise has settled after
\* the race was lost: the await has already thrown, nothing is assigned
lateSettle_assigned(p, newsAnalysis) ==
    IF IsNull(p.ret) THEN p
    ELSE [p EXCEPT !.ret = Some([Val(p.ret) EXCEPT !.newsAnalysis = Some(newsAnalysis)])]

lateSettle(p, newsAnalysis) == p

\* newsAnalyzer.analyzeCurrency() settles after the timer has fired
newsLate ==
    /\ news.late
    /\ net # "hang"
    /\ news' = [newsFetched(news, net) EXCEPT !.late = FALSE]
    /\ pass' = lateSettle(pass, analyzeCurrency(pass.symbol, net))
    /\ UNCHANGED <<chartData, subscribed, candles, aliased, analysis, drawings, pc, net,
                   result, sink, live, loads, calls, tracker, dm, wire>>

\* after sleep(200) at 100%: analyze() returns; the app hands a signal to
\* signalTracker.saveSignal()
analyzeReturn ==
    /\ pc = "s100"
    /\ result' = [kind |-> "returned", given |-> pass.given, signal |-> pass.ret]
    /\ sink' = IF pass.viaApp /\ ~IsNull(pass.ret)
               THEN Append(sink, [signal |-> Val(pass.ret), given |-> pass.given])
               ELSE sink
    /\ pc' = "idle"
    /\ pass' = [noPass EXCEPT !.race = pass.race, !.structure = pass.structure]
    /\ UNCHANGED <<chartData, subscribed, candles, aliased, analysis, drawings, net,
                   live, loads, calls, news, tracker, dm, wire>>

Next ==
    \/ loadChartData
    \/ \E batch \in Batches : loads < MaxLoads /\ handleCandles(batch)
    \/ \E move \in LiveMoves, fresh \in BOOLEAN :
          live < MaxLive /\ handleOHLC(liveCandle(chartData, move, fresh))
    \/ \E symbol \in Symbols : appGenerateSignal(symbol)
    \/ \E symbol \in Symbols, arg \in {Null, Some(chartData)} : analyze(arg, symbol)
    \/ phaseStructure
    \/ phaseSkip
    \/ phaseSupportResistance
    \/ phaseOrderBlocks
    \/ phaseOther
    \/ phaseWyckoff
    \/ phaseFairValueGaps
    \/ phaseLiquidity
    \/ phaseChoch
    \/ \E mode \in NetModes : phasePremiumDiscount(mode)
    \/ newsResolve
    \/ newsTimeout
    \/ newsLate
    \/ analyzeReturn

Spec == Init /\ [][Next]_vars

\* the 10 s timer of the race always fires, and the sleep before analyze()
\* returns always ends
FairSpec == Spec /\ WF_vars(newsTimeout) /\ WF_vars(analyzeReturn)

----------------------------------------------------------------------------
(* Properties of the signal engine                                         *)

returnedSignal == result.kind = "returned" /\ ~IsNull(result.signal)
capturedTrend == Val(pass.structure).trend

\* C1: analyze() never emits a signal when fewer than 100 candles are
\* supplied: a call with a missing sequence or with 0..99 candles returns
\* null, no pass is started for it, and no signal of such a call reaches the
\* signal sink.
C1_NoSignalBelowMinCandles ==
    /\ (result.kind \in {"returned", "declined"} /\ result.given < MinCandles)
          => IsNull(result.signal)
    /\ pc # "idle" => pass.given >= MinCandles
    /\ \A k \in 1..Len(sink) : sink[k].given >= MinCandles

\* a direct call with 99 candles has returned
C1_Witness ==
    /\ result.kind = "returned"
    /\ result.given = MinCandles - 1
    /\ IsNull(result.signal)

\* C2: the emitted action follows the trend generateSignal read: BUY only for
\* a bullish trend, SELL only for a bearish trend, and no signal for a
\* ranging trend, whatever the news race gave.
C2_ActionFollowsTrend ==
    (pc = "s100" /\ pass.race # "none") =>
        /\ (~IsNull(pass.ret) /\ Val(pass.ret).action = "BUY") => capturedTrend = "bullish"
        /\ (~IsNull(pass.ret) /\ Val(pass.ret).action = "SELL") => capturedTrend = "bearish"
        /\ capturedTrend = "ranging" => IsNull(pass.ret)
        /\ capturedTrend # "ranging" => ~IsNull(pass.ret)

\* a pass on a bearish structure is about to return a SELL signal
C2_Witness ==
    /\ pc = "s100"
    /\ pass.race = "news"
    /\ capturedTrend = "bearish"
    /\ ~IsNull(pass.ret)
    /\ Val(pass.ret).action = "SELL"

\* C3: every emitted signal has its levels on the correct side of entry: a
\* BUY signal has sl < entry < tp1, tp2, tp3 and a SELL signal has
\* sl > entry > tp1, tp2, tp3.
C3_LevelsOnCorrectSide ==
    returnedSignal =>
        LET s == Val(result.signal)
        IN /\ s.action = "BUY" =>
                (s.sl < s.entry /\ s.entry < s.tp1 /\ s.entry < s.tp2 /\ s.entry < s.tp3)
           /\ s.action = "SELL" =>
                (s.sl > s.entry /\ s.entry > s.tp1 /\ s.entry > s.tp2 /\ s.entry > s.tp3)

\* C5: when the news request never settles, the pass does not wait beyond
\* the timer: it returns, with a signal whose sentimentConfidence is 0 and
\* whose newsAnalysis is null for a non-ranging trend, and with null for a
\* ranging trend.
C5_TimeoutCompletes ==
    (pc = "news" /\ net = "hang") ~>
        /\ pc = "idle"
        /\ result.kind = "returned"
        /\ pass.race = "timeout"
        /\ IF capturedTrend = "ranging" THEN IsNull(result.signal)
           ELSE /\ ~IsNull(result.signal)
                /\ Val(result.signal).sentimentConfidence = 0
                /\ IsNull(Val(result.signal).newsAnalysis)

\* a pass whose news request hung has returned a signal after the timeout
C5_Witness ==
    /\ net = "hang"
    /\ pass.race = "timeout"
    /\ returnedSignal
    /\ Val(result.signal).sentimentConfidence = 0

\* C6: when every news request fails (non-OK response or network error),
\* the pass still returns and the sentiment sub-score of its signal is 0.
C6_FailedNewsScoresZero ==
    (returnedSignal /\ pass.race = "news" /\ net \in {"status", "throw"})
        => Val(result.signal).sentimentConfidence = 0

----------------------------------------------------------------------------
(* findSwingPoints() and identifyMarketStructure() on their own: a pass    *)
(* over one candle sequence.  The sequences are flat series with marked    *)
(* candles at a few indexes, and strictly monotone series.                 *)

MonotoneLen == 150

SwingLens == {2 * period, 2 * period + 1, 3 * period + 2, 4 * period + 3}
MarkAt == {period, period + 1, 2 * period + 1, 3 * period + 2}
MarkKinds == {"none", "up", "top", "dip", "down", "outside"}

flatCandle(i) == Candle((i + 1) * Tf * 1000, Base, Base + 1, Base - 1, Base)

\* a flat candle with a raised high, a lowered low, or both
markCandle(c, kind) ==
    CASE kind = "up" -> [c EXCEPT !.high = c.high + 2]
      [] kind = "top" -> [c EXCEPT !.high = c.high + 4]
      [] kind = "dip" -> [c EXCEPT !.low = c.low - 2]
      [] kind = "down" -> [c EXCEPT !.low = c.low - 4]
      [] kind = "outside" -> [c EXCEPT !.high = c.high + 4, !.low = c.low - 4]
      [] OTHER -> c

markedSeries(n, marks) ==
    [k \in 1..n |-> IF (k - 1) \in MarkAt
                    THEN markCandle(flatCandle(k - 1), marks[k - 1])
                    ELSE flatCandle(k - 1)]

SwingInputs ==
    {markedSeries(n, marks) : n \in SwingLens, marks \in [MarkAt -> MarkKinds]}
    \cup {Batch(0, d, n) : d \in {2, -2}, n \in {2 * period + 1, MonotoneLen}}

SwingInit ==
    /\ candles \in SwingInputs
    /\ pc = "swing"
    /\ chartData = <<>>
    /\ subscribed = FALSE
    /\ aliased = FALSE
    /\ analysis = emptyAnalysis
    /\ drawings = Null
    /\ pass = noPass
    /\ net = "none"
    /\ result = noResult
    /\ sink = <<>>
    /\ live = 0
    /\ loads = 0
    /\ calls = 0
    /\ news = newNews
    /\ tracker = newTracker
    /\ dm = newDm
    /\ wire = idleWire

\* this.analysis.marketStructure = this.identifyMarketStructure()
swingPass ==
    /\ pc = "swing"
    /\ analysis' = [analysis EXCEPT !.marketStructure = Some(identifyMarketStructure(candles))]
    /\ pc' = "swung"
    /\ UNCHANGED <<chartData, subscribed, candles, aliased, drawings, pass, net, result,
                   sink, live, loads, calls, news, tracker, dm, wire>>

SwingNext == swingPass

SwingSpec == SwingInit /\ [][SwingNext]_vars

----------------------------------------------------------------------------
(* Properties of the swing detector and the structure classifier           *)

swung == pc = "swung"
structure == Val(analysis.marketStructure)

strictlyRising(cs) ==
    \A k \in 1..(Len(cs) - 1) : cs[k + 1].high > cs[k].high /\ cs[k + 1].low > cs[k].low
strictlyFalling(cs) ==
    \A k \in 1..(Len(cs) - 1) : cs[k + 1].high < cs[k].high /\ cs[k + 1].low < cs[k].low

\* C4 as stated: a strictly increasing 150-bar series is classified bullish
\* and a strictly decreasing one bearish.
C4_MonotoneTrends ==
    (swung /\ Len(candles) = MonotoneLen) =>
        /\ strictlyRising(candles) => structure.trend = "bullish"
        /\ strictlyFalling(candles) => structure.trend = "bearish"

\* C4 amended: a strictly monotone series, the 150-bar ones included, has no
\* swing point, so both counts are 0 and the trend is ranging.
C4_MonotoneRanging ==
    (swung /\ (strictlyRising(candles) \/ strictlyFalling(candles))) =>
        /\ structure.swings = <<>>
        /\ structure.higherHighs = 0
        /\ structure.lowerLows = 0
        /\ structure.trend = "ranging"

\* the strictly increasing 150-bar series has been classified
C4_Witness ==
    /\ swung
    /\ Len(candles) = MonotoneLen
    /\ strictlyRising(candles)
    /\ structure.trend = "ranging"

\* C7: no high swing and low swing are reported at the same candle index.
C7_OneTypePerIndex ==
    swung =>
        \A j, k \in 1..Len(structure.swings) :
            structure.swings[j].index = structure.swings[k].index
                => structure.swings[j].type = structure.swings[k].type

inWindow(cs, i) == period <= i /\ i < Len(cs) - period
strictHigh(cs, i) ==
    \A k \in (i - period)..(i + period) : k = i \/ cs[k + 1].high < cs[i + 1].high
strictLow(cs, i) ==
    \A k \in (i - period)..(i + period) : k = i \/ cs[k + 1].low > cs[i + 1].low
reportedAt(swings, type, i) ==
    {k \in 1..Len(swings) : swings[k].type = type /\ swings[k].index = i}

\* C8: a high swing is reported at index i iff period <= i < n - period and
\* candle i's high is strictly greater than every other high in
\* [i - period, i + period], likewise for low swings with strictly less; a
\* tie disqualifies; each swing carries the candle's price; the list is
\* ordered by index; fewer than 2 * period + 1 candles give an empty list.
C8_SwingsAreStrictExtrema ==
    swung =>
        LET swings == structure.swings
            n == Len(candles)
        IN /\ \A i \in 0..(n - 1) :
                /\ reportedAt(swings, "high", i) # {}
                     <=> (inWindow(candles, i) /\ strictHigh(candles, i))
                /\ reportedAt(swings, "low", i) # {}
                     <=> (inWindow(candles, i) /\ strictLow(candles, i))
                /\ Cardinality(reportedAt(swings, "high", i)) <= 1
                /\ Cardinality(reportedAt(swings, "low", i)) <= 1
           /\ \A k \in 1..Len(swings) :
                /\ swings[k].index \in 0..(n - 1)
                /\ swings[k].type \in {"high", "low"}
                /\ swings[k].price = IF swings[k].type = "high"
                                     THEN candles[swings[k].index + 1].high
                                     ELSE candles[swings[k].index + 1].low
           /\ \A k \in 1..(Len(swings) - 1) : swings[k].index <= swings[k + 1].index
           /\ n < 2 * period + 1 => swings = <<>>

\* two neighbouring candles tie for the highest high of their windows and
\* neither is reported, while another candle is
C8_Witness ==
    /\ swung
    /\ structure.swings # <<>>
    /\ inWindow(candles, period) /\ inWindow(candles, period + 1)
    /\ candles[period + 1].high = candles[period + 2].high
    /\ candles[period + 1].high > flatCandle(0).high
    /\ reportedAt(structure.swings, "high", period) = {}
    /\ reportedAt(structure.swings, "high", period + 1) = {}

\* the swings two positions apart that have the same type
sameTypePairs(swings) ==
    {k \in 3..Len(swings) : swings[k].type = swings[k - 2].type}

\* C9: only same-type swings are compared: higherHighs counts the high
\* swings above the high swing two positions earlier, lowerLows the low
\* swings below the low swing two positions earlier; no swing is counted
\* against a swing of the other type.
C9_SameTypeComparisons ==
    swung =>
        LET swings == structure.swings
        IN /\ structure.higherHighs =
                Cardinality({k \in sameTypePairs(swings) :
                    swings[k].type = "high" /\ swings[k].price > swings[k - 2].price})
           /\ structure.lowerLows =
                Cardinality({k \in sameTypePairs(swings) :
                    swings[k].type = "low" /\ swings[k].price < swings[k - 2].price})

----------------------------------------------------------------------------
(* detectFairValueGaps() over a growing candle sequence: each step appends *)
(* one candle and runs the detector again                                  *)

MaxAppend == 3
FvgBaseLen == 20

FvgBases == {Batch(0, 5, FvgBaseLen), Batch(0, -5, FvgBaseLen), Batch(3, 1, FvgBaseLen)}
FvgMoves == {-120, -6, 6, 120}

FvgInit ==
    /\ candles \in FvgBases
    /\ analysis = [emptyAnalysis EXCEPT !.fvgs = detectFairValueGaps(candles)]
    /\ pc = "fvg"
    /\ chartData = <<>>
    /\ subscribed = FALSE
    /\ aliased = FALSE
    /\ drawings = Null
    /\ pass = noPass
    /\ net = "none"
    /\ result = noResult
    /\ sink = <<>>
    /\ live = 0
    /\ loads = 0
    /\ calls = 0
    /\ news = newNews
    /\ tracker = newTracker
    /\ dm = newDm
    /\ wire = idleWire

\* a candle is appended; this.analysis.fvgs = this.detectFairValueGaps()
fvgPass(candle) ==
    /\ pc = "fvg"
    /\ live < MaxAppend
    /\ live' = live + 1
    /\ candles' = Append(candles, candle)
    /\ analysis' = [analysis EXCEPT !.fvgs = detectFairValueGaps(Append(candles, candle))]
    /\ UNCHANGED <<chartData, subscribed, aliased, drawings, pc, pass, net, result,
                   sink, loads, calls, news, tracker, dm, wire>>

FvgNext == \E move \in FvgMoves : fvgPass(liveCandle(candles, move, TRUE))

FvgSpec == FvgInit /\ [][FvgNext]_vars

sameGap(g, h) == g.index = h.index /\ g.type = h.type

\* C10: the filled flag is monotonic under appended candles: a gap marked
\* filled by one pass is marked filled by the pass after one more candle,
\* as long as the gap is still retained.
C10_FilledMonotone ==
    [][\A j \in 1..Len(analysis.fvgs), k \in 1..Len(analysis'.fvgs) :
          (sameGap(analysis.fvgs[j], analysis'.fvgs[k]) /\ analysis.fvgs[j].filled)
              => analysis'.fvgs[k].filled]_vars

\* a gap the pass before the last candle marked filled is still retained,
\* and is marked filled by a candle other than the last
C10_Witness ==
    /\ pc = "fvg"
    /\ live >= 1
    /\ LET before == detectFairValueGaps(SubSeq(candles, 1, Len(candles) - 1))
       IN \E j \in 1..Len(before), k \in 1..Len(analysis.fvgs) :
             /\ sameGap(before[j], analysis.fvgs[k])
             /\ before[j].filled
             /\ analysis.fvgs[k].filled
             /\ ~ fvgFilledLoop(candles, Len(candles) - 1, analysis.fvgs[k].type,
                                analysis.fvgs[k].bottom, analysis.fvgs[k].top)

----------------------------------------------------------------------------
(* calculatePremiumDiscount() on its own: a pass over one candle sequence. *)
(* Every candle but the first spans the same low..high; the first reaches  *)
(* further out on both sides, and leaves the window when the sequence is   *)
(* longer than PdWindow.                                                   *)

PdLens == {2, PdWindow, PdWindow + 1}
PdRanges == {<<1000, 2000>>, <<1000, 1100>>, <<1500, 1500>>}
PdCloses == {1000, 1038, 1039, 1061, 1062, 1100, 1264, 1265, 1381, 1382, 1383, 1500,
             1617, 1618, 1619, 1736, 1737, 2000}

pdSeries(n, lo, hi, c) ==
    [k \in 1..n |->
        IF k = 1 THEN Candle(Tf * 1000, lo, hi + 500, lo - 500, lo)
        ELSE IF k = n THEN Candle(k * Tf * 1000, lo, hi, lo, c)
        ELSE Candle(k * Tf * 1000, lo, hi, lo, lo)]

PdInputs ==
    UNION {{pdSeries(n, r[1], r[2], c) : c \in {x \in PdCloses : r[1] <= x /\ x <= r[2]}} :
              n \in PdLens, r \in PdRanges}

PdInit ==
    /\ candles \in PdInputs
    /\ pc = "pd"
    /\ chartData = <<>>
    /\ subscribed = FALSE
    /\ aliased = FALSE
    /\ analysis = emptyAnalysis
    /\ drawings = Null
    /\ pass = noPass
    /\ net = "none"
    /\ result = noResult
    /\ sink = <<>>
    /\ live = 0
    /\ loads = 0
    /\ calls = 0
    /\ news = newNews
    /\ tracker = newTracker
    /\ dm = newDm
    /\ wire = idleWire

\* this.calculatePremiumDiscount()
pdPass ==
    /\ pc = "pd"
    /\ analysis' = [analysis EXCEPT !.premiumDiscount = Some(calculatePremiumDiscount(candles))]
    /\ pc' = "pdDone"
    /\ UNCHANGED <<chartData, subscribed, candles, aliased, drawings, pass, net, result,
                   sink, live, loads, calls, news, tracker, dm, wire>>

PdNext == pdPass

PdSpec == PdInit /\ [][PdNext]_vars

\* C11: the zone is one of premium, discount, equilibrium and matches a
\* recomputation from the latest close against the stored levels: premium
\* exactly when the close is above the 61.8% level, discount exactly when it
\* is below the 38.2% level, equilibrium otherwise (a close on a level and a
\* zero-width range included).
C11_ZoneMatchesLevels ==
    pc = "pdDone" =>
        LET pd == Val(analysis.premiumDiscount)
            close == 1000 * candles[Len(candles)].close
        IN /\ pd.currentZone \in {"premium", "discount", "equilibrium"}
           /\ pd.currentZone = "premium" <=> close > pd.levels.fib618
           /\ pd.currentZone = "discount" <=> close < pd.levels.fib382
           /\ (pd.levels.high = pd.levels.low) => pd.currentZone = "equilibrium"

----------------------------------------------------------------------------
(* analyze() run from its first line to its return with no feed message in *)
(* between: one pass over one candle history.  The histories are the feed  *)
(* batches, trends that end in a pullback, and each of them after one live *)
(* candle.                                                                 *)

\* the series of shape (a, d) up to candle `turn`, then closes moving by
\* `step` per candle
turnCandle(a, d, turn, step, i) ==
    IF i <= turn THEN shapeCandle(a, d, i)
    ELSE LET c == mid(a, d, turn) + step * (i - turn)
             o == IF step >= 0 THEN c - 1 ELSE c + 1
         IN Candle((i + 1) * Tf * 1000, o, Max2(o, c) + 1, Min2(o, c) - 1, c)
turnSeries(a, d, turn, step, n) == [k \in 1..n |-> turnCandle(a, d, turn, step, k - 1)]

PassBases ==
    {Batch(sh[1], sh[2], MinCandles) : sh \in Shapes}
    \cup {turnSeries(3, 1, 9 * HalfWave, -3, MinCandles),
          turnSeries(3, -1, 8 * HalfWave, 3, MinCandles)}

PassMoves == {-593, -400, -98, 98, 400, 593}

PassInputs ==
    PassBases
    \cup {updateLast(cd, liveCandle(cd, move, fresh)) :
             cd \in PassBases, move \in PassMoves, fresh \in BOOLEAN}

PassInit ==
    /\ chartData \in PassInputs
    /\ candles = <<>>
    /\ pc = "idle"
    /\ subscribed = TRUE
    /\ aliased = FALSE
    /\ analysis = emptyAnalysis
    /\ drawings = Null
    /\ pass = noPass
    /\ net = "none"
    /\ result = noResult
    /\ sink = <<>>
    /\ live = 0
    /\ loads = 0
    /\ calls = 0
    /\ news = newNews
    /\ tracker = newTracker
    /\ dm = newDm
    /\ wire = idleWire

\* this.analysis after the phases of analyze() have run in order on cs
analyzePhases(cs, a) ==
    LET a1 == [a EXCEPT !.marketStructure = Some(identifyMarketStructure(cs))]
        a2 == [a1 EXCEPT !.supportResistance = findSupportResistance(cs),
                         !.orderBlocks = findOrderBlocks(cs),
                         !.fvgs = detectFairValueGaps(cs)]
        a3 == [a2 EXCEPT !.liquidityZones = findLiquidityZones(cs, a2)]
    IN [a3 EXCEPT !.chochs = detectChoCHAndBOS(a3).chochs,
                  !.bos = detectChoCHAndBOS(a3).bos,
                  !.wyckoff = Some(analyzeWyckoff(cs)),
                  !.premiumDiscount = Some(calculatePremiumDiscount(cs))]

\* generateSignal() of app.js with nothing else scheduled until it returns;
\* mode is what the network does with the news requests
runPass(symbol, mode) ==
    /\ pc = "idle"
    /\ result.kind = "none"
    /\ ~appGuard(chartData)
    /\ \E a \in {analyzePhases(chartData, analysis)},
          newsAnalysis \in {analyzeCurrency(symbol, mode)} :
          LET p == [symbol |-> symbol, timeframe |-> Tf,
                    current |-> chartData[Len(chartData)],
                    structure |-> Val(a.marketStructure), pd |-> Val(a.premiumDiscount)]
          IN \E signal \in {IF mode = "hang"
                            THEN finishSignal(p, newsConfidenceCaught("News timeout"),
                                              Null, a)
                            ELSE finishSignal(p, newsConfidenceOf(newsAnalysis),
                                              Some(newsAnalysis), a)} :
                /\ analysis' = a
                /\ result' = [kind |-> "returned", given |-> Len(chartData),
                              signal |-> signal]
                /\ sink' = IF IsNull(signal) THEN sink
                           ELSE Append(sink, [signal |-> Val(signal),
                                              given |-> Len(chartData)])
                /\ pass' = [noPass EXCEPT
                               !.race = IF mode = "hang" THEN "timeout" ELSE "news",
                               !.structure = a.marketStructure]
    /\ candles' = chartData
    /\ aliased' = TRUE
    /\ net' = mode
    /\ calls' = calls + 1
    /\ UNCHANGED <<chartData, subscribed, drawings, pc, live, loads, news, tracker, dm, wire>>

PassNext == \E symbol \in Symbols, mode \in NetModes : runPass(symbol, mode)

PassSpec == PassInit /\ [][PassNext]_vars

\* the signals handed to saveSignal so far
emitted == {sink[k].signal : k \in 1..Len(sink)}
subScores(s) == s.technicalConfidence + s.smcConfidence + s.sentimentConfidence

\* C12: the overall confidence of every emitted signal is an integer in
\* 0..100 and is the rounded mean of the three sub-scores the signal reports,
\* each of which is in 0..100.
C12_ConfidenceIsRoundedMean ==
    \A s \in emitted :
        /\ s.confidence \in 0..100
        /\ s.technicalConfidence \in 0..100
        /\ s.smcConfidence \in 0..100
        /\ s.sentimentConfidence \in 0..100
        /\ s.confidence = RoundDiv(subScores(s), 3)
\* a signal with three positive sub-scores whose mean is rounded up
C12_Witness ==
    \E s \in emitted :
        /\ s.technicalConfidence > 0 /\ s.smcConfidence > 0 /\ s.sentimentConfidence > 0
        /\ subScores(s) % 3 = 2

----------------------------------------------------------------------------
(* The feed alone: histories and live candles delivered to the store and   *)
(* to the subscriber callback, with no signal requested.                   *)

FeedLoads == 2          \* historical batches per run
FeedLive == 1           \* live OHLC messages per run
ShortLen == 10          \* a history shorter than MinDrawCandles

FeedBatches == Batches \cup {Batch(sh[1], sh[2], ShortLen) : sh \in Shapes}

\* an 'ohlc' message whose epoch is `lag` periods before the last candle's
lateCandle(cd, move, lag) ==
    [liveCandle(cd, move, FALSE) EXCEPT !.time = @ - lag * Tf * 1000]

\* an 'ohlc' message for the next bar whose high is below its low
tornCandle(cd) ==
    [liveCandle(cd, 0, TRUE) EXCEPT !.high = @ - 3, !.low = @ + 3]

FeedNext ==
    \/ loadChartData
    \/ \E batch \in FeedBatches : loads < FeedLoads /\ handleCandles(batch)
    \/ \E move \in LiveMoves, lag \in {-1, 0, 1} :
          live < FeedLive /\ handleOHLC(lateCandle(chartData, move, lag))
    \/ live < FeedLive /\ handleOHLC(tornCandle(chartData))

FeedSpec == Init /\ [][FeedNext]_vars

increasingInTime(cd) == \A k \in 1..(Len(cd) - 1) : cd[k].time < cd[k + 1].time

\* C13: chartData is strictly increasing in time after any sequence of
\* histories and live updates.
C13_StrictlyIncreasingTime == increasingInTime(chartData)

----------------------------------------------------------------------------
(* analyze() and the feed on the shared smcAnalyzer                        *)

suspended == pc # "idle"

\* C14: from the call of analyze() to its return the candles it reads are
\* the sequence it was called with: no step taken while it is suspended
\* changes this.candles.
C14_PassReadsSnapshot == [][suspended => candles' = candles]_vars

\* C15: while analyze() is suspended, a step that is not one of its own
\* phases (a drawing pass or another call) writes no field of this.analysis.
C15_OnePassAtATime == [][(suspended /\ pc' = pc) => analysis' = analysis]_vars

----------------------------------------------------------------------------
(* Full replace of the history                                             *)

\* C16: once a history has been delivered, smcAnalyzer.analysis and the chart
\* drawings hold nothing but what is computed from the candles now in the
\* store: the drawing pass over them, or nothing when they are fewer than
\* MinDrawCandles.
C16_ReplaceDiscardsPriorState ==
    loads > 0 =>
        IF drawGuard(chartData)
        THEN analysis = emptyAnalysis /\ drawings = Null
        ELSE /\ analysis = drawPass(chartData, emptyAnalysis)
             /\ drawings = Some(getDrawables(drawPass(chartData, emptyAnalysis)))

----------------------------------------------------------------------------
(* Levels and scores of the emitted signals                                *)

\* C17: the take-profit levels of every emitted signal lie at increasing
\* distance from entry.
C17_TargetsAtIncreasingDistance ==
    \A s \in emitted :
        /\ Abs(s.tp1 - s.entry) < Abs(s.tp2 - s.entry)
        /\ Abs(s.tp2 - s.entry) < Abs(s.tp3 - s.entry)

\* C18: the stop-loss of every emitted signal differs from entry and is at
\* least one pip away, so that riskReward = tp2Pips / slPips is finite.
C18_MinimumRiskDistance ==
    \A s \in emitted : s.sl # s.entry /\ s.slPips >= 1

\* what analyzeCurrency returns when no article carries sentiment
neutralNews == [sentiment |-> 0, articles |-> 0, direction |-> "NEUTRAL"]

opposes(s) ==
    /\ ~IsNull(s.newsAnalysis)
    /\ \/ s.action = "BUY" /\ Val(s.newsAnalysis).direction = "BEARISH"
       \/ s.action = "SELL" /\ Val(s.newsAnalysis).direction = "BULLISH"

\* C19: news whose direction opposes the bias of the signal never scores a
\* higher sentimentConfidence than neutral news does.
C19_OpposingNewsNotAboveNeutral ==
    \A s \in emitted : opposes(s) => s.sentimentConfidence <= newsConfidenceOf(neutralNews)

\* the stage of generateSignal a reason comes from: 1 technical, 2 SMC, 3 news
stageOf(reason) ==
    IF reason \in {"discount zone", "support", "premium zone", "resistance"} THEN 1
    ELSE IF reason \in {"news BULLISH", "news BEARISH", "news NEUTRAL"} THEN 3
    ELSE 2

\* C20: the reasons of every emitted signal are distinct, follow the order
\* technical checks, SMC checks, news, and are at most 5.
C20_ReasonsOrderedAndCapped ==
    \A s \in emitted :
        /\ Len(s.reasons) <= 5
        /\ \A j, k \in 1..Len(s.reasons) :
              j < k => /\ s.reasons[j] # s.reasons[k]
                       /\ stageOf(s.reasons[j]) <= stageOf(s.reasons[k])

----------------------------------------------------------------------------
(* findOrderBlocks() on its own: quiet candles (open = close) and one pair *)
(* of a down-candle followed by an up-candle, or the reverse, at a chosen  *)
(* place.                                                                  *)

ObLens == {20, 21}
ObBodies == {30, 31}     \* body of the second candle of the pair, around 0.3% of Base

\* candle i of a series whose pair sits at i = at, at + 1
obCandle(at, bullish, body, i) ==
    LET t == (i + 1) * Tf * 1000
        dir == IF bullish THEN 1 ELSE -1
    IN IF i = at THEN Candle(t, Base + 5 * dir, Base + 6, Base - 6, Base)
       ELSE IF i = at + 1
       THEN Candle(t, Base, Base + body + 1, Base - body - 1, Base + dir * body)
       ELSE IF i > at + 1
       THEN Candle(t, Base + dir * body, Base + dir * body + 1, Base + dir * body - 1,
                   Base + dir * body)
       ELSE Candle(t, Base + 5 * dir, Base + 5 * dir + 1, Base + 5 * dir - 1,
                   Base + 5 * dir)

obSeries(n, at, bullish, body) == [k \in 1..n |-> obCandle(at, bullish, body, k - 1)]

ObInputs ==
    UNION {{obSeries(n, at, bullish, body) : at \in 0..(n - 2)} :
              n \in ObLens, bullish \in BOOLEAN, body \in ObBodies}

ObInit ==
    /\ candles \in ObInputs
    /\ pc = "ob"
    /\ chartData = <<>>
    /\ subscribed = FALSE
    /\ aliased = FALSE
    /\ analysis = emptyAnalysis
    /\ drawings = Null
    /\ pass = noPass
    /\ net = "none"
    /\ result = noResult
    /\ sink = <<>>
    /\ live = 0
    /\ loads = 0
    /\ calls = 0
    /\ news = newNews
    /\ tracker = newTracker
    /\ dm = newDm
    /\ wire = idleWire

\* this.findOrderBlocks()
obPass ==
    /\ pc = "ob"
    /\ analysis' = [analysis EXCEPT !.orderBlocks = findOrderBlocks(candles)]
    /\ pc' = "obDone"
    /\ UNCHANGED <<chartData, subscribed, candles, aliased, drawings, pass, net, result,
                   sink, live, loads, calls, news, tracker, dm, wire>>

ObNext == obPass

ObSpec == ObInit /\ [][ObNext]_vars

\* the pair (cs[i + 1], cs[i + 2]) makes candle i the origin of an order block
bullishPair(cs, i) ==
    /\ cs[i + 1].close < cs[i + 1].open
    /\ cs[i + 2].close > cs[i + 2].open
    /\ 1000 * (cs[i + 2].close - cs[i + 2].open) > 3 * cs[i + 2].open
bearishPair(cs, i) ==
    /\ cs[i + 1].close > cs[i + 1].open
    /\ cs[i + 2].close < cs[i + 2].open
    /\ 1000 * (cs[i + 2].open - cs[i + 2].close) > 3 * cs[i + 2].open
listed(obs, type, cs, i) ==
    \E k \in 1..Len(obs) :
        /\ obs[k].type = type /\ obs[k].index = i
        /\ obs[k].bottom = cs[i + 1].low /\ obs[k].top = cs[i + 1].high

\* C21: every adjacent pair that qualifies, wherever it lies, is an order
\* block of the result with the range of its first candle (the sequences
\* here hold fewer than ObKeep candidates, so the cut drops none).
C21_EveryPairExamined ==
    pc = "obDone" =>
        \A i \in 0..(Len(candles) - 2) :
            /\ bullishPair(candles, i) => listed(analysis.orderBlocks, "bullish", candles, i)
            /\ bearishPair(candles, i) => listed(analysis.orderBlocks, "bearish", candles, i)

----------------------------------------------------------------------------
(* Ingestion of malformed candles                                          *)

wellFormed(c) ==
    /\ c.high >= c.low
    /\ c.high >= Max2(c.open, c.close)
    /\ c.low <= Min2(c.open, c.close)

\* C22: no candle that breaks the OHLC invariants is stored in chartData or
\* is among the candles the analyzer holds.
C22_MalformedRejected ==
    /\ \A k \in 1..Len(chartData) : wellFormed(chartData[k])
    /\ \A k \in 1..Len(candles) : wellFormed(candles[k])

----------------------------------------------------------------------------
(* The swing-dependent stages called on their own, before or after         *)
(* identifyMarketStructure() has run.  result.kind tells how the call      *)
(* ended: "returned" or "threw".                                           *)

StageLens == {MinDrawCandles + 10, MinCandles - 1, MinCandles}
StageInputs == {Batch(sh[1], sh[2], n) : sh \in Shapes, n \in StageLens}

\* this.analysis before the call: as constructed, after
\* identifyMarketStructure(), or after that and calculatePremiumDiscount()
stageAnalyses(cs) ==
    {emptyAnalysis,
     [emptyAnalysis EXCEPT !.marketStructure = Some(identifyMarketStructure(cs))],
     [emptyAnalysis EXCEPT !.marketStructure = Some(identifyMarketStructure(cs)),
                           !.premiumDiscount = Some(calculatePremiumDiscount(cs))]}

StageInit ==
    /\ candles \in StageInputs
    /\ analysis \in stageAnalyses(candles)
    /\ pc = "stage"
    /\ chartData = <<>>
    /\ subscribed = FALSE
    /\ aliased = FALSE
    /\ drawings = Null
    /\ pass = noPass
    /\ net = "none"
    /\ result = noResult
    /\ sink = <<>>
    /\ live = 0
    /\ loads = 0
    /\ calls = 0
    /\ news = newNews
    /\ tracker = newTracker
    /\ dm = newDm
    /\ wire = idleWire

stageFrame == UNCHANGED <<chartData, subscribed, candles, aliased, drawings, pass, sink,
                          live, loads, calls, news, tracker, dm, wire>>

\* smcAnalyzer.findLiquidityZones()
stageLiquidity ==
    /\ pc = "stage"
    /\ analysis' = [analysis EXCEPT !.liquidityZones = findLiquidityZones(candles, analysis)]
    /\ result' = [kind |-> "returned", given |-> Len(candles), signal |-> Null]
    /\ pc' = "liquidityDone"
    /\ UNCHANGED net
    /\ stageFrame

\* smcAnalyzer.detectChoCHAndBOS()
stageChoch ==
    /\ pc = "stage"
    /\ \E found \in {detectChoCHAndBOS(analysis)} :
          analysis' = [analysis EXCEPT !.chochs = found.chochs, !.bos = found.bos]
    /\ result' = [kind |-> "returned", given |-> Len(candles), signal |-> Null]
    /\ pc' = "chochDone"
    /\ UNCHANGED net
    /\ stageFrame

\* smcAnalyzer.generateSignal(symbol, timeframe) awaited to its end; mode is
\* what the network does with the news requests
stageSignal(symbol, mode) ==
    /\ pc = "stage"
    /\ IF IsNull(analysis.marketStructure) \/ IsNull(analysis.premiumDiscount)
       THEN /\ result' = [kind |-> "returned", given |-> Len(candles), signal |-> Null]
            /\ net' = net
       ELSE /\ \E newsAnalysis \in {analyzeCurrency(symbol, mode)} :
               LET p == [symbol |-> symbol, timeframe |-> Tf,
                         current |-> candles[Len(candles)],
                         structure |-> Val(analysis.marketStructure),
                         pd |-> Val(analysis.premiumDiscount)]
               IN \E signal \in {IF mode = "hang"
                                 THEN finishSignal(p, newsConfidenceCaught("News timeout"),
                                                   Null, analysis)
                                 ELSE finishSignal(p, newsConfidenceOf(newsAnalysis),
                                                   Some(newsAnalysis), analysis)} :
                     result' = [kind |-> "returned", given |-> Len(candles),
                                signal |-> signal]
            /\ net' = mode
    /\ pc' = "signalDone"
    /\ UNCHANGED analysis
    /\ stageFrame

StageNext ==
    \/ stageLiquidity
    \/ stageChoch
    \/ \E symbol \in Symbols, mode \in NetModes : stageSignal(symbol, mode)

StageSpec == StageInit /\ [][StageNext]_vars

\* C23: a swing-dependent stage that ran while marketStructure was still
\* unset ended in a hard failure.
C23_StageFailsWithoutSwings ==
    (pc \in {"liquidityDone", "chochDone", "signalDone"} /\ IsNull(analysis.marketStructure))
        => result.kind = "threw"

(***************************************************************************)
(* The news cache: NewsAnalyzer.getNews and clearCache on their own, with  *)
(* the clock and the responses of the news service as the environment.     *)
(* Times are in ms; an article list is a number, 0 the empty list.         *)
(***************************************************************************)

\* this.cacheTime = 5 * 60 * 1000
cacheTime == 300000

ClockSteps == {60000, 180000}
MaxNow == 420000
MaxRequests == 3
Articles == {1, 2}
Outcomes == {"ok", "notOk", "throws"}

\* the state of the application before anything was loaded or analysed
appVars ==
    <<chartData, subscribed, candles, aliased, analysis, drawings, pass, net, result,
      sink, live, loads, calls>>

appAtRest ==
    /\ chartData = <<>>
    /\ subscribed = FALSE
    /\ candles = <<>>
    /\ aliased = FALSE
    /\ analysis = emptyAnalysis
    /\ drawings = Null
    /\ pass = noPass
    /\ net = "none"
    /\ result = noResult
    /\ sink = <<>>
    /\ live = 0
    /\ loads = 0
    /\ calls = 0

NewsInit ==
    /\ appAtRest
    /\ pc = "news"
    /\ news = newNews
    /\ tracker = newTracker
    /\ dm = newDm
    /\ wire = idleWire

\* cached && Date.now() - cached.time < this.cacheTime
cacheHit(n, symbol) ==
    /\ ~IsNull(n.cache[symbol])
    /\ n.now - Val(n.cache[symbol]).time < cacheTime

\* getNews(symbol) up to its return of cached.data or its await of fetch(url)
getNewsEnter(symbol) ==
    /\ pc = "news"
    /\ IF cacheHit(news, symbol)
       THEN news' = [news EXCEPT !.last =
                Some([symbol |-> symbol, data |-> Val(news.cache[symbol]).data,
                      fetched |-> FALSE])]
       ELSE /\ news.requests < MaxRequests
            /\ news' = [news EXCEPT
                   !.requests = @ + 1,
                   !.pending = @ \cup {[symbol |-> symbol, n |-> news.requests + 1]}]
    /\ UNCHANGED <<appVars, pc, tracker, dm, wire>>

\* getNews(symbol) from the settling of fetch(url) to its return
getNewsSettle(req, outcome, filtered) ==
    /\ pc = "news"
    /\ req \in news.pending
    /\ IF outcome = "ok"
       THEN news' = [news EXCEPT
                !.pending = @ \ {req},
                !.cache[req.symbol] = Some([data |-> filtered, time |-> news.now]),
                !.last = Some([symbol |-> req.symbol, data |-> filtered, fetched |-> TRUE])]
       ELSE news' = [news EXCEPT
                !.pending = @ \ {req},
                !.last = Some([symbol |-> req.symbol, data |-> 0, fetched |-> TRUE])]
    /\ UNCHANGED <<appVars, pc, tracker, dm, wire>>

\* clearCache()
clearCache ==
    /\ pc = "news"
    /\ news' = [news EXCEPT !.cache = [s \in NewsSymbols |-> Null]]
    /\ UNCHANGED <<appVars, pc, tracker, dm, wire>>

\* Date.now() advances
clockAdvance(step) ==
    /\ pc = "news"
    /\ news.now + step <= MaxNow
    /\ news' = [news EXCEPT !.now = @ + step]
    /\ UNCHANGED <<appVars, pc, tracker, dm, wire>>

NewsNext ==
    \/ \E symbol \in NewsSymbols : getNewsEnter(symbol)
    \/ \E req \in news.pending, outcome \in Outcomes, filtered \in Articles :
           getNewsSettle(req, outcome, filtered)
    \/ clearCache
    \/ \E step \in ClockSteps : clockAdvance(step)

NewsSpec == NewsInit /\ [][NewsNext]_vars

\* no request for the symbol is issued in this step
noRequestFor(symbol) ==
    \A req \in news'.pending \ news.pending : req.symbol # symbol

\* a getNews that returns in this step without having fetched returns the
\* articles of an entry less than 5 minutes old
servedFromFreshEntry ==
    (news'.last # news.last /\ ~Val(news'.last).fetched)
        => /\ cacheHit(news, Val(news'.last).symbol)
           /\ Val(news'.last).data = Val(news.cache[Val(news'.last).symbol]).data

\* C24: the news cache is invalidated purely by expiry: while an entry is
\* less than 5 minutes old no request is issued for its symbol and getNews
\* returns its articles; getNews returns from the cache only then, so an
\* entry 5 minutes old or older is fetched again; and no step removes or
\* replaces an entry that has not expired.
C24_CacheInvalidatedOnlyByExpiry ==
    [][/\ \A symbol \in NewsSymbols :
              cacheHit(news, symbol)
                  => /\ noRequestFor(symbol)
                     /\ news'.cache[symbol] = news.cache[symbol]
       /\ servedFromFreshEntry]_vars

(***************************************************************************)
(* The signal tracker: saveSignal, startTracking, checkSignals and         *)
(* updateSignalStatus, with the signal store, the live price and the clock *)
(* as the environment.  tracker.store is the store's collection of         *)
(* signals, a signal's id its position there; tracker.signals is           *)
(* this.signals; tracker.runs are the checkSignals runs waiting for their  *)
(* status write.                                                           *)
(***************************************************************************)

MaxSignals == 2
MaxRuns == 2
MaxTrackNow == 5000
TrackPrices == {990, 1000, 1005, 1015, 1035}

\* a signal as createBuySignal / createSellSignal return it, before it has an id
tradeSignal(action, symbol) ==
    [id |-> 0, symbol |-> symbol, action |-> action, entry |-> 1000,
     sl |-> IF action = "BUY" THEN 990 ELSE 1010,
     tp1 |-> IF action = "BUY" THEN 1010 ELSE 990,
     tp2 |-> IF action = "BUY" THEN 1020 ELSE 980,
     tp3 |-> IF action = "BUY" THEN 1030 ELSE 970,
     status |-> "active", exitPrice |-> 0, exitTime |-> 0]

TradeSignals ==
    {tradeSignal("BUY", "XAUUSD"), tradeSignal("SELL", "XAUUSD"), tradeSignal("BUY", "EURUSD")}

\* the last candle of the feed closes at this price
priceCandle(close) ==
    [time |-> Tf, open |-> close, high |-> close, low |-> close, close |-> close]

TrackInit ==
    /\ subscribed = FALSE
    /\ candles = <<>>
    /\ aliased = FALSE
    /\ analysis = emptyAnalysis
    /\ drawings = Null
    /\ pass = noPass
    /\ net = "none"
    /\ result = noResult
    /\ sink = <<>>
    /\ live = 0
    /\ loads = 0
    /\ calls = 0
    /\ pc = "track"
    /\ chartData = <<priceCandle(1005)>>
    /\ news = newNews
    /\ \E stored \in {<<>>} \cup {<<[s EXCEPT !.id = 1]>> : s \in TradeSignals} :
           tracker = [newTracker EXCEPT !.store = stored]
    /\ dm = [newDm EXCEPT !.ws = 1, !.connected = TRUE, !.sockets = <<"open">>]
    /\ wire = idleWire

\* determineStatus(signal, currentPrice)
determineStatus(signal, currentPrice) ==
    IF signal.action = "BUY"
    THEN IF currentPrice <= signal.sl THEN "hit_sl"
         ELSE IF currentPrice >= signal.tp3 THEN "hit_tp3"
         ELSE IF currentPrice >= signal.tp2 THEN "hit_tp2"
         ELSE IF currentPrice >= signal.tp1 THEN "hit_tp1"
         ELSE IF Abs(currentPrice - signal.entry) * 1000 < signal.entry THEN "breakeven"
         ELSE "active"
    ELSE IF currentPrice >= signal.sl THEN "hit_sl"
         ELSE IF currentPrice <= signal.tp3 THEN "hit_tp3"
         ELSE IF currentPrice <= signal.tp2 THEN "hit_tp2"
         ELSE IF currentPrice <= signal.tp1 THEN "hit_tp1"
         ELSE IF Abs(currentPrice - signal.entry) * 1000 < signal.entry THEN "breakeven"
         ELSE "active"

\* dataManager.getCurrentPrice(): null is 0 here, which checkSignals treats alike
getCurrentPrice(cd) == IF Len(cd) = 0 THEN 0 ELSE cd[Len(cd)].close

\* this.signals.filter(s => s.status === 'active'), as positions in this.signals
activeSignals(signals) ==
    SelectSeq([k \in 1..Len(signals) |-> k], LAMBDA k : signals[k].status = "active")

RECURSIVE checkLoop(_, _, _, _, _)
\* the for loop of checkSignals over the positions todo, up to the await of
\* its first updateSignalStatus, whose updates are made before the PATCH is sent
checkLoop(signals, symbol, currentPrice, todo, now) ==
    IF todo = <<>>
    THEN [currentPrice |-> currentPrice, todo |-> <<>>, wait |-> Null]
    ELSE LET signal == signals[Head(todo)]
             newStatus == determineStatus(signal, currentPrice)
         IN  IF signal.symbol # symbol \/ newStatus = signal.status
             THEN checkLoop(signals, symbol, currentPrice, Tail(todo), now)
             ELSE [currentPrice |-> currentPrice, todo |-> Tail(todo),
                   wait |-> Some([k |-> Head(todo), status |-> newStatus,
                                  exitPrice |-> currentPrice, exitTime |-> now])]

\* Object.assign(signal, updates), and the PATCH of the same fields in the store
assignUpdates(signal, updates) ==
    [signal EXCEPT !.status = updates.status, !.exitPrice = updates.exitPrice,
                   !.exitTime = updates.exitTime]

\* the runs with run r replaced by its continuation, or dropped when it returned
runsAfter(runs, r, run) ==
    IF IsNull(run.wait)
    THEN SubSeq(runs, 1, r - 1) \o SubSeq(runs, r + 1, Len(runs))
    ELSE [runs EXCEPT ![r] = run]

\* startTracking() up to its await of loadSignals()
startTracking ==
    /\ pc = "track"
    /\ ~tracker.tracking
    /\ tracker' = [tracker EXCEPT !.tracking = TRUE]
    /\ UNCHANGED <<appVars, pc, news, dm, wire>>

\* loadSignals() returns and startTracking sets the 5 s interval
loadSignals ==
    /\ pc = "track"
    /\ tracker.tracking
    /\ ~tracker.loaded
    /\ tracker' = [tracker EXCEPT !.signals = tracker.store, !.loaded = TRUE]
    /\ UNCHANGED <<appVars, pc, news, dm, wire>>

\* saveSignal(signal): the store appends the signal and names it
saveSignal(signal) ==
    /\ pc = "track"
    /\ Len(tracker.store) < MaxSignals
    /\ tracker' = [tracker EXCEPT
           !.store = Append(@, [signal EXCEPT !.id = Len(tracker.store) + 1])]
    /\ UNCHANGED <<appVars, pc, news, dm, wire>>

\* the interval fires: checkSignals() up to its first await or its return
checkSignals ==
    /\ pc = "track"
    /\ tracker.loaded
    /\ Len(tracker.runs) < MaxRuns
    /\ dm.connected
    /\ getCurrentPrice(chartData) # 0
    /\ \E run \in {checkLoop(tracker.signals, dm.currentSymbol, getCurrentPrice(chartData),
                             activeSignals(tracker.signals), tracker.now)} :
           tracker' = IF IsNull(run.wait) THEN tracker
                      ELSE [tracker EXCEPT !.runs = Append(@, run)]
    /\ UNCHANGED <<appVars, pc, news, dm, wire>>

\* the PATCH of run r settles: updateSignalStatus finishes and the loop of
\* checkSignals goes on to its next await or its return
updateSignalStatus(r, ok) ==
    /\ pc = "track"
    /\ r \in 1..Len(tracker.runs)
    /\ LET run == tracker.runs[r]
           updates == Val(run.wait)
           signals == IF ok THEN [tracker.signals EXCEPT
                                     ![updates.k] = assignUpdates(@, updates)]
                      ELSE tracker.signals
           id == tracker.signals[updates.k].id
       IN  tracker' = [tracker EXCEPT
               !.signals = signals,
               !.store = IF ok THEN [@ EXCEPT ![id] = assignUpdates(@, updates)] ELSE @,
               !.runs = runsAfter(@, r, checkLoop(signals, dm.currentSymbol,
                                                  run.currentPrice, run.todo, tracker.now))]
    /\ UNCHANGED <<appVars, pc, news, dm, wire>>

\* the feed moves the last close
feedPrice(close) ==
    /\ pc = "track"
    /\ chartData' = <<priceCandle(close)>>
    /\ UNCHANGED <<subscribed, candles, aliased, analysis, drawings, pc, pass, net, result,
                   sink, live, loads, calls, news, tracker, dm, wire>>

\* five seconds pass
trackClock ==
    /\ pc = "track"
    /\ tracker.now < MaxTrackNow
    /\ tracker' = [tracker EXCEPT !.now = @ + 5000]
    /\ UNCHANGED <<appVars, pc, news, dm, wire>>

TrackNext ==
    \/ startTracking
    \/ loadSignals
    \/ \E signal \in TradeSignals : saveSignal(signal)
    \/ checkSignals
    \/ \E r \in 1..MaxRuns, ok \in BOOLEAN : updateSignalStatus(r, ok)
    \/ \E close \in TrackPrices : feedPrice(close)
    \/ trackClock

TrackSpec == TrackInit /\ [][TrackNext]_vars

TerminalStatuses == {"hit_tp1", "hit_tp2", "hit_tp3", "hit_sl", "breakeven"}

\* the status, exitPrice and exitTime of a signal
outcomeOf(signal) == <<signal.status, signal.exitPrice, signal.exitTime>>

\* C25: terminal statuses are final: once a signal of the tracker, or its
\* record in the store, has status hit_tp1, hit_tp2, hit_tp3, hit_sl or
\* breakeven, no step changes its status, exitPrice or exitTime.
C25_TerminalStatusFinal ==
    [][/\ \A k \in 1..Len(tracker.signals) :
              tracker.signals[k].status \in TerminalStatuses
                  => outcomeOf(tracker'.signals[k]) = outcomeOf(tracker.signals[k])
       /\ \A id \in 1..Len(tracker.store) :
              tracker.store[id].status \in TerminalStatuses
                  => outcomeOf(tracker'.store[id]) = outcomeOf(tracker.store[id])]_vars

\* the interval keeps firing, and a status write that is retried succeeds in the end
FairTrackSpec ==
    /\ TrackSpec
    /\ WF_vars(checkSignals)
    /\ SF_vars(\E r \in 1..MaxRuns : updateSignalStatus(r, TRUE))

\* the live price is the price of the signal's symbol and is at or beyond
\* the signal's stop-loss or one of its take-profits
priceReached(signal) ==
    /\ dm.connected
    /\ dm.currentSymbol = signal.symbol
    /\ determineStatus(signal, getCurrentPrice(chartData))
           \in {"hit_sl", "hit_tp1", "hit_tp2", "hit_tp3"}

\* signal id is in the store, active, and the tracker is running
trackedActive(id) ==
    /\ tracker.loaded
    /\ id <= Len(tracker.store)
    /\ tracker.store[id].status = "active"

\* C26: every signal saved is tracked once tracking runs: when the price of
\* its symbol is at its stop-loss or a take-profit, then, unless the price
\* leaves that level again, its status eventually leaves active.
C26_SavedSignalIsTracked ==
    \A id \in 1..MaxSignals :
        (trackedActive(id) /\ priceReached(tracker.store[id]))
            ~> ~(trackedActive(id) /\ priceReached(tracker.store[id]))

(***************************************************************************)
(* The news response that loses the race against the 10 s timer (Spec).    *)
(***************************************************************************)

\* the signal was built without news
builtWithoutNews(signal) ==
    IsNull(signal) \/ (Val(signal).sentimentConfidence = 0 /\ IsNull(Val(signal).newsAnalysis))

\* the news response arrives in this step, after the timer has fired
lateResponse == news.late /\ ~news'.late

\* C27: a news response that arrives after the 10 s timeout has no effect
\* on the analysis: the step in which it arrives changes no field of the
\* analysis, of the pass, of the returned result or of the emitted signals,
\* and the signal built or returned after a timeout has sentimentConfidence
\* 0 and newsAnalysis null, before and after the late response.
C27_LateNewsHasNoEffect ==
    /\ [][lateResponse => /\ analysis' = analysis
                          /\ pass' = pass
                          /\ result' = result
                          /\ sink' = sink
                          /\ drawings' = drawings]_vars
    /\ [](pass.race = "timeout"
              => /\ builtWithoutNews(pass.ret)
                 /\ builtWithoutNews(result.signal)
                 /\ \A k \in 1..Len(sink) : builtWithoutNews(Some(sink[k].signal)))

\* the response has arrived and was cached after a pass that timed out had
\* emitted its signal
C27_Witness ==
    /\ pass.race = "timeout"
    /\ ~news.late
    /\ ~IsNull(news.cache["GLD"])
    /\ Len(sink) = 1
    /\ sink[1].signal.sentimentConfidence = 0

(***************************************************************************)
(* Switching the symbol: changeSymbol, unsubscribe, loadData and           *)
(* handleMessage, with the feed server as the environment.  wire.requests  *)
(* are the requests the server has not handled yet, wire.messages the      *)
(* messages on their way to the client, in order, wire.streams the         *)
(* subscriptions the server holds.  The server answers requests            *)
(* asynchronously, in any order.  The candles of a symbol lie in the price *)
(* band of that symbol.                                                    *)
(***************************************************************************)

SwitchSymbols == {"XAUUSD", "BTCUSD"}
MaxSwitches == 2
MaxTicks == 2
MaxMessages == 3
HistoryLen == 3
BandSplit == 30000

bandOf(symbol) == IF symbol = "BTCUSD" THEN 60000 ELSE 2000

\* the history the server returns for the symbol
historyOf(symbol) ==
    [k \in 1..HistoryLen |->
        [time |-> k * Tf, open |-> bandOf(symbol) + k, high |-> bandOf(symbol) + k + 1,
         low |-> bandOf(symbol) + k - 1, close |-> bandOf(symbol) + k]]

\* a tick of the stream of the symbol, for the bar at position k
tickOf(symbol, k) ==
    [time |-> k * Tf, open |-> bandOf(symbol) + k, high |-> bandOf(symbol) + k + 2,
     low |-> bandOf(symbol) + k - 1, close |-> bandOf(symbol) + k + 1]

\* the symbol whose stream the candle belongs to
streamOf(candle) == IF candle.close >= BandSplit THEN "BTCUSD" ELSE "XAUUSD"

\* the app has connected and init() has called loadChartData() for XAUUSD
SwitchInit ==
    /\ chartData = <<>>
    /\ subscribed = TRUE
    /\ candles = <<>>
    /\ aliased = FALSE
    /\ analysis = emptyAnalysis
    /\ drawings = Null
    /\ pass = noPass
    /\ net = "none"
    /\ result = noResult
    /\ sink = <<>>
    /\ live = 0
    /\ loads = 0
    /\ calls = 0
    /\ pc = "switch"
    /\ news = newNews
    /\ tracker = newTracker
    /\ dm = [newDm EXCEPT !.ws = 1, !.connected = TRUE, !.sockets = <<"open">>]
    /\ wire = [idleWire EXCEPT
           !.requests = {[kind |-> "ticks_history", symbol |-> "XAUUSD", n |-> 1]},
           !.sent = 1]

\* what unsubscribe() sends
forgetRequests(d, w) ==
    IF d.ws # 0 /\ d.connected
    THEN {[kind |-> "forget_all", symbol |-> "", n |-> w.sent + 1]}
    ELSE {}

\* what loadData(symbol, timeframe, callback) sends
historyRequests(d, w, symbol) ==
    IF d.connected
    THEN {[kind |-> "ticks_history", symbol |-> symbol, n |-> w.sent + 2]}
    ELSE {}

\* changeSymbol(): dataManager.unsubscribe(), then loadChartData()
changeSymbol(symbol) ==
    /\ pc = "switch"
    /\ symbol # dm.currentSymbol
    /\ wire.sent < 1 + 2 * MaxSwitches
    /\ dm' = [dm EXCEPT !.currentSymbol = symbol]
    /\ subscribed' = TRUE
    /\ wire' = [wire EXCEPT
           !.requests = @ \cup forgetRequests(dm, wire) \cup historyRequests(dm, wire, symbol),
           !.sent = @ + 2]
    /\ UNCHANGED <<chartData, candles, aliased, analysis, drawings, pc, pass, net, result,
                   sink, live, loads, calls, news, tracker>>

\* the server handles one of the requests it has received
serverHandle(req) ==
    /\ pc = "switch"
    /\ req \in wire.requests
    /\ IF req.kind = "forget_all"
       THEN wire' = [wire EXCEPT !.requests = @ \ {req}, !.streams = {}]
       ELSE /\ Len(wire.messages) < MaxMessages
            /\ wire' = [wire EXCEPT
                   !.requests = @ \ {req},
                   !.streams = @ \cup {req.symbol},
                   !.messages = Append(@, [msg_type |-> "candles",
                                           candles |-> historyOf(req.symbol)])]
    /\ UNCHANGED <<appVars, pc, news, tracker, dm>>

\* a stream the server holds produces a tick
serverTick(symbol, k) ==
    /\ pc = "switch"
    /\ symbol \in wire.streams
    /\ wire.ticks < MaxTicks
    /\ Len(wire.messages) < MaxMessages
    /\ wire' = [wire EXCEPT
           !.ticks = @ + 1,
           !.messages = Append(@, [msg_type |-> "ohlc", ohlc |-> tickOf(symbol, k)])]
    /\ UNCHANGED <<appVars, pc, news, tracker, dm>>

\* ws.onmessage: handleMessage(data) for the next message of the socket
handleMessage ==
    /\ pc = "switch"
    /\ wire.messages # <<>>
    /\ wire' = [wire EXCEPT !.messages = Tail(@)]
    /\ LET data == Head(wire.messages)
       IN  IF data.msg_type = "candles"
           THEN /\ chartData' = data.candles
                /\ analyzeSMC(data.candles, FALSE)
           ELSE /\ chartData' = updateLast(chartData, data.ohlc)
                /\ analyzeSMC(updateLast(chartData, data.ohlc), TRUE)
    /\ UNCHANGED <<subscribed, pc, pass, net, result, sink, live, loads, calls, news,
                   tracker, dm>>

SwitchNext ==
    \/ \E symbol \in SwitchSymbols : changeSymbol(symbol)
    \/ \E req \in wire.requests : serverHandle(req)
    \/ \E symbol \in SwitchSymbols, k \in {HistoryLen, HistoryLen + 1} : serverTick(symbol, k)
    \/ handleMessage

SwitchSpec == SwitchInit /\ [][SwitchNext]_vars

\* C28: chartData never mixes streams: all its candles belong to the
\* stream of one symbol, whatever was in flight when the symbol was switched.
C28_NoStreamMixing ==
    \A j, k \in 1..Len(chartData) : streamOf(chartData[j]) = streamOf(chartData[k])

(***************************************************************************)
(* The connection of the DataManager: connect, the socket's onopen and     *)
(* onclose, attemptReconnect, the reconnect timer and disconnect.          *)
(* dm.sockets are the WebSockets created so far, dm.ws the position of     *)
(* this.ws among them (0 for null), dm.timers the reconnect timers that    *)
(* have not fired yet.  A socket is "closing" only after ws.close().       *)
(***************************************************************************)

\* this.maxReconnects = 5
maxReconnects == 5

MaxSockets == 6

ConnInit ==
    /\ appAtRest
    /\ pc = "conn"
    /\ news = newNews
    /\ tracker = newTracker
    /\ dm = newDm
    /\ wire = idleWire

\* connect(): this.ws = new WebSocket(...), with its handlers
connectCall(d) ==
    [d EXCEPT !.sockets = Append(@, "connecting"), !.ws = Len(d.sockets) + 1]

\* the guard of attemptReconnect()
canReconnect_inclusive(d) == d.reconnectAttempts <= maxReconnects

canReconnect(d) == d.reconnectAttempts < maxReconnects

\* attemptReconnect()
attemptReconnect(d) ==
    IF canReconnect(d)
    THEN [d EXCEPT !.reconnectAttempts = @ + 1, !.timers = @ + 1]
    ELSE d

\* the app calls connect()
connect ==
    /\ pc = "conn"
    /\ dm.ws = 0
    /\ Len(dm.sockets) < MaxSockets
    /\ dm' = connectCall(dm)
    /\ UNCHANGED <<appVars, pc, news, tracker, wire>>

\* ws.onopen of socket k
socketOpen(k) ==
    /\ pc = "conn"
    /\ dm.sockets[k] = "connecting"
    /\ dm' = [dm EXCEPT !.sockets[k] = "open", !.connected = TRUE, !.reconnectAttempts = 0]
    /\ UNCHANGED <<appVars, pc, news, tracker, wire>>

\* socket k closes, because the connection failed or was lost or after
\* ws.close(): ws.onclose of socket k
socketClose(k) ==
    /\ pc = "conn"
    /\ dm.sockets[k] \in {"connecting", "open", "closing"}
    /\ dm' = attemptReconnect([dm EXCEPT !.sockets[k] = "closed", !.connected = FALSE])
    /\ UNCHANGED <<appVars, pc, news, tracker, wire>>

\* a timer set by attemptReconnect() fires: connect()
reconnectTimer ==
    /\ pc = "conn"
    /\ dm.timers > 0
    /\ Len(dm.sockets) < MaxSockets
    /\ dm' = connectCall([dm EXCEPT !.timers = @ - 1])
    /\ UNCHANGED <<appVars, pc, news, tracker, wire>>

\* disconnect()
disconnect ==
    /\ pc = "conn"
    /\ IF dm.ws # 0
       THEN /\ wire' = [wire EXCEPT !.requests = @ \cup forgetRequests(dm, wire),
                                    !.sent = @ + Cardinality(forgetRequests(dm, wire))]
            /\ subscribed' = FALSE
            /\ dm' = [dm EXCEPT
                   !.sockets[dm.ws] = IF @ = "closed" THEN "closed" ELSE "closing",
                   !.ws = 0,
                   !.connected = FALSE]
       ELSE UNCHANGED <<subscribed, dm, wire>>
    /\ UNCHANGED <<chartData, candles, aliased, analysis, drawings, pc, pass, net, result,
                   sink, live, loads, calls, news, tracker>>

ConnNext ==
    \/ connect
    \/ \E k \in 1..Len(dm.sockets) : socketOpen(k)
    \/ \E k \in 1..Len(dm.sockets) : socketClose(k)
    \/ reconnectTimer
    \/ disconnect

ConnSpec == ConnInit /\ [][ConnNext]_vars

\* a socket opens in this step
opens == \E k \in 1..Len(dm.sockets) : dm.sockets[k] = "connecting" /\ dm'.sockets[k] = "open"

\* C29: reconnectAttempts stays between 0 and maxReconnects; a reconnect
\* attempt is scheduled only below the limit and counts one more; and the
\* counter is 0 after every step in which a connection opens.
C29_ReconnectAttemptsBounded ==
    /\ [](dm.reconnectAttempts \in 0..maxReconnects)
    /\ [][dm'.timers > dm.timers
              => /\ dm.reconnectAttempts < maxReconnects
                 /\ dm'.reconnectAttempts = dm.reconnectAttempts + 1]_vars
    /\ [][opens => dm'.reconnectAttempts = 0]_vars

\* five attempts in a row have failed: the limit is reached and nothing is scheduled
C29_Witness ==
    /\ dm.reconnectAttempts = maxReconnects
    /\ dm.timers = 0
    /\ Len(dm.sockets) = maxReconnects + 1
    /\ \A k \in 1..Len(dm.sockets) : dm.sockets[k] = "closed"

\* C30: after disconnect() the DataManager stays disconnected: the close of
\* a socket that disconnect() closed schedules no reconnect attempt, and
\* while this.ws is null, as disconnect() leaves it until connect() is
\* called, connected is false.
C30_DisconnectStaysDisconnected ==
    /\ [][\A k \in 1..Len(dm.sockets) :
              (dm.sockets[k] = "closing" /\ dm'.sockets[k] = "closed")
                  => /\ dm'.timers = dm.timers
                     /\ dm'.reconnectAttempts = dm.reconnectAttempts]_vars
    /\ [](dm.ws = 0 => ~dm.connected)

====
